---- MODULE Spec2Model ----
(***************************************************************************)
(* Decision engine of the AI-Powered Enterprise Workflow Agent:            *)
(*   src/src/core/classification.py  EnhancedClassificationSystem          *)
(*   src/src/core/assignment.py      EnhancedAssignmentEngine              *)
(*                                                                         *)
(* Python str values are sequences of one-character strings, so that       *)
(* `in`, str.count, str.lower, str.title, str.split and str.strip are      *)
(* computed character by character.  Python floats are exact rationals     *)
(* <<numerator, denominator>> in lowest terms with denominator > 0.        *)
(***************************************************************************)
EXTENDS Integers, Sequences, FiniteSets, TLC

VARIABLES
  rb_text,          \* text argument of the rule-based call under study
  rb_title,         \* title argument of the rule-based call under study
  rb_result,        \* what _classify_rule_based returned for them
  clock,            \* datetime.utcnow(), in ticks
  cls_call,         \* arguments of the last classify call
  cls_result,       \* outcome of the last classify call
  cls_trace,        \* classifiers the last classify call ran, in order
  first_rule,       \* first successful rule-based classify call: [call, result]
  accuracy_stats,   \* EnhancedClassificationSystem.accuracy_stats
  roster,           \* teams_data handed to the assignment strategies
  asg_task,         \* task_data of the last assignment call
  asg_strategy,     \* strategy of the last assignment call
  asg_result,       \* outcome of the last assignment call
  asg_parts,        \* results of the sub-strategies of the last hybrid call
  returned,         \* strategy_used labels of the results classify has returned, with counts
  db,               \* the teams, tasks and assignments tables of the database
  engine_stats,     \* EnhancedAssignmentEngine.stats
  agents,           \* the AssignmentAgent.execute calls in progress: their local variables
  sub_results,      \* what the classifiers, or the strategies, run by a combiner handed back
  combined          \* what the classification combiner made of them

vars == <<rb_text, rb_title, rb_result, clock, cls_call, cls_result,
          cls_trace, first_rule, accuracy_stats, roster, asg_task,
          asg_strategy, asg_result, asg_parts, returned, db,
          engine_stats, agents, sub_results, combined>>

cls_vars == <<clock, cls_call, cls_result, cls_trace, first_rule, accuracy_stats, returned>>

db_vars == <<db, engine_stats, agents>>

comb_vars == <<sub_results, combined>>

rb_vars == <<rb_text, rb_title, rb_result>>

asg_vars == <<roster, asg_task, asg_strategy, asg_result, asg_parts>>

----------------------------------------------------------------------------
(* Bounds of the model.                                                    *)

\* longest generated text, in vocabulary words
MaxWords == 2

\* most teams in a generated roster
MaxTeams == 2

\* classify calls after which the model stops issuing calls
MaxCalls == 3

\* largest clock value
MaxClock == 1

\* most validate_classification calls
MaxValidations == 2

----------------------------------------------------------------------------
(* Exact rational arithmetic standing for Python float arithmetic.         *)

Abs(n) == IF n < 0 THEN 0 - n ELSE n

RECURSIVE GCD(_, _)
GCD(a, b) == IF b = 0 THEN a ELSE GCD(b, a % b)

Rat(n, d) ==
  LET g == GCD(Abs(n), d) IN <<n \div g, d \div g>>

Zero == <<0, 1>>

One == <<1, 1>>

RInt(n) == <<n, 1>>

RAdd(a, b) ==
  LET g == GCD(a[2], b[2])
      l == (a[2] \div g) * b[2]
  IN  Rat(a[1] * (l \div a[2]) + b[1] * (l \div b[2]), l)

RNeg(a) == <<0 - a[1], a[2]>>

RSub(a, b) == RAdd(a, RNeg(b))

RMul(a, b) ==
  LET g1 == GCD(Abs(a[1]), b[2])
      g2 == GCD(Abs(b[1]), a[2])
  IN  IF a[1] = 0 \/ b[1] = 0 THEN Zero
      ELSE <<(a[1] \div g1) * (b[1] \div g2), (a[2] \div g2) * (b[2] \div g1)>>

\* a / n for an integer n > 0
RDivInt(a, n) == RMul(a, <<1, n>>)

RLt(a, b) ==
  LET g == GCD(a[2], b[2])
  IN  a # b /\ a[1] * (b[2] \div g) < b[1] * (a[2] \div g)

RLe(a, b) == a = b \/ RLt(a, b)

RMin(a, b) == IF RLt(b, a) THEN b ELSE a

RECURSIVE RSumSeq(_)
RSumSeq(s) == IF s = <<>> THEN Zero ELSE RAdd(Head(s), RSumSeq(Tail(s)))

\* format(x, ".2f") for x >= 0, as a number of hundredths.  A value that lies
\* exactly between two hundredths is rounded to the even one; the float the
\* code formats lies to one side of such a value, and always to the same side
\* for the same operands.
Round2(a) ==
  LET n == a[1] * 100
      q == n \div a[2]
      r == n % a[2]
  IN  IF 2 * r > a[2] \/ (2 * r = a[2] /\ q % 2 = 1) THEN q + 1 ELSE q

----------------------------------------------------------------------------
(* Python str operations on sequences of characters.                       *)

UpperCase == <<"A", "B", "C", "D", "E", "F", "G", "H", "I", "J", "K", "L", "M",
               "N", "O", "P", "Q", "R", "S", "T", "U", "V", "W", "X", "Y", "Z">>

LowerCase == <<"a", "b", "c", "d", "e", "f", "g", "h", "i", "j", "k", "l", "m",
               "n", "o", "p", "q", "r", "s", "t", "u", "v", "w", "x", "y", "z">>

Whitespace == {" ", "\t", "\n"}

LowerChar(c) ==
  IF \E i \in 1..26 : UpperCase[i] = c
  THEN LowerCase[CHOOSE i \in 1..26 : UpperCase[i] = c]
  ELSE c

UpperChar(c) ==
  IF \E i \in 1..26 : LowerCase[i] = c
  THEN UpperCase[CHOOSE i \in 1..26 : LowerCase[i] = c]
  ELSE c

IsLetter(c) == \E i \in 1..26 : UpperCase[i] = c \/ LowerCase[i] = c

\* str.lower()
Lower(s) == [i \in 1..Len(s) |-> LowerChar(s[i])] \o <<>>

\* str.title(): a letter that follows a non-letter is upper-cased, every other lower-cased
Title(s) ==
  [i \in 1..Len(s) |->
     IF i = 1 \/ ~IsLetter(s[IF i = 1 THEN 1 ELSE i - 1])
     THEN UpperChar(s[i]) ELSE LowerChar(s[i])] \o <<>>

\* str.strip() = "" : nothing but whitespace
IsBlank(s) == \A i \in 1..Len(s) : s[i] \in Whitespace

MatchAt(p, s, i) == \A j \in 1..Len(p) : s[i + j - 1] = p[j]

\* p in s
Contains(p, s) == \E i \in 1..(Len(s) - Len(p) + 1) : MatchAt(p, s, i)

\* the positions at which p occurs in s
Occurrences(p, s) == {i \in 1..(Len(s) - Len(p) + 1) : MatchAt(p, s, i)}

\* s.count(p): occurrences that do not overlap, taken greedily from the left
RECURSIVE CountFrom(_, _, _)
CountFrom(occ, width, from) ==
  LET rest == {i \in occ : i >= from}
  IN  IF rest = {} THEN 0
      ELSE LET first == CHOOSE i \in rest : \A j \in rest : i <= j
           IN  1 + CountFrom(rest, width, first + width)

Count(p, s) == CountFrom(Occurrences(p, s), Len(p), 1)

\* len(s.split()): maximal runs of characters that are not whitespace
NumWords(s) ==
  Cardinality({i \in 1..Len(s) :
                 /\ s[i] \notin Whitespace
                 /\ (i = 1 \/ s[IF i = 1 THEN 1 ELSE i - 1] \in Whitespace)})

\* f"{a} {b}"
Join2(a, b) == a \o <<" ">> \o b

----------------------------------------------------------------------------
(* src/src/database/models.py: the enumerations, by their values.          *)

TaskCategory == {"IT", "HR", "Operations"}

TaskPriority == {"critical", "high", "medium", "low"}

\* iteration order of the pattern dictionaries
CategoryOrder == <<"IT", "HR", "Operations">>

PriorityOrder == <<"critical", "high", "medium", "low">>

----------------------------------------------------------------------------
(* The keyword dictionaries and the skill table, as written in the source. *)

category_patterns ==
  [IT |->
     <<
      <<"s", "e", "r", "v", "e", "r">>, <<"n", "e", "t", "w", "o", "r", "k">>,
      <<"d", "a", "t", "a", "b", "a", "s", "e">>, <<"a", "p", "p", "l", "i", "c", "a", "t", "i", "o", "n">>,
      <<"s", "o", "f", "t", "w", "a", "r", "e">>, <<"h", "a", "r", "d", "w", "a", "r", "e">>,
      <<"b", "u", "g">>, <<"e", "r", "r", "o", "r">>, <<"c", "r", "a", "s", "h">>,
      <<"p", "e", "r", "f", "o", "r", "m", "a", "n", "c", "e">>, <<"s", "e", "c", "u", "r", "i", "t", "y">>,
      <<"b", "a", "c", "k", "u", "p">>, <<"d", "e", "p", "l", "o", "y">>,
      <<"i", "n", "f", "r", "a", "s", "t", "r", "u", "c", "t", "u", "r", "e">>,
      <<"s", "y", "s", "t", "e", "m">>, <<"c", "o", "d", "e">>, <<"a", "p", "i">>,
      <<"w", "e", "b", "s", "i", "t", "e">>, <<"e", "m", "a", "i", "l">>, <<"v", "p", "n">>,
      <<"f", "i", "r", "e", "w", "a", "l", "l">>, <<"p", "a", "t", "c", "h">>,
      <<"u", "p", "d", "a", "t", "e">>, <<"i", "n", "s", "t", "a", "l", "l">>,
      <<"c", "o", "n", "f", "i", "g", "u", "r", "e">>,
      <<"t", "r", "o", "u", "b", "l", "e", "s", "h", "o", "o", "t">>,
      <<"p", "r", "o", "g", "r", "a", "m", "m", "i", "n", "g">>,
      <<"d", "e", "v", "e", "l", "o", "p", "m", "e", "n", "t">>,
      <<"t", "e", "c", "h", "n", "i", "c", "a", "l">>, <<"I", "T">>,
      <<"t", "e", "c", "h", "n", "o", "l", "o", "g", "y">>, <<"o", "u", "t", "a", "g", "e">>,
      <<"d", "o", "w", "n">>, <<"c", "o", "n", "n", "e", "c", "t", "i", "o", "n">>,
      <<"a", "c", "c", "e", "s", "s">>, <<"l", "o", "g", "i", "n">>,
      <<"p", "a", "s", "s", "w", "o", "r", "d">>, <<"d", "a", "t", "a">>, <<"f", "i", "l", "e">>,
      <<"f", "o", "l", "d", "e", "r">>, <<"d", "i", "s", "k">>, <<"m", "e", "m", "o", "r", "y">>,
      <<"c", "p", "u">>, <<"b", "a", "n", "d", "w", "i", "d", "t", "h">>,
      <<"i", "n", "t", "e", "r", "n", "e", "t">>, <<"w", "e", "b">>, <<"b", "r", "o", "w", "s", "e", "r">>,
      <<"m", "o", "b", "i", "l", "e">>, <<"a", "p", "p">>, <<"p", "l", "a", "t", "f", "o", "r", "m">>,
      <<"c", "l", "o", "u", "d">>, <<"a", "z", "u", "r", "e">>, <<"a", "w", "s">>,
      <<"l", "i", "n", "u", "x">>, <<"w", "i", "n", "d", "o", "w", "s">>, <<"m", "a", "c">>,
      <<"u", "n", "i", "x">>, <<"s", "q", "l">>, <<"q", "u", "e", "r", "y">>, <<"t", "a", "b", "l", "e">>,
      <<"i", "n", "d", "e", "x">>, <<"s", "c", "r", "i", "p", "t">>,
      <<"a", "u", "t", "o", "m", "a", "t", "i", "o", "n">>,
      <<"m", "o", "n", "i", "t", "o", "r", "i", "n", "g">>, <<"a", "l", "e", "r", "t">>, <<"l", "o", "g">>,
      <<"d", "e", "b", "u", "g">>, <<"f", "i", "x">>
     >>,
   HR |->
     <<
      <<"e", "m", "p", "l", "o", "y", "e", "e">>, <<"s", "t", "a", "f", "f">>, <<"h", "i", "r", "e">>,
      <<"r", "e", "c", "r", "u", "i", "t">>, <<"i", "n", "t", "e", "r", "v", "i", "e", "w">>,
      <<"o", "n", "b", "o", "a", "r", "d">>, <<"t", "r", "a", "i", "n", "i", "n", "g">>,
      <<"p", "a", "y", "r", "o", "l", "l">>, <<"b", "e", "n", "e", "f", "i", "t", "s">>,
      <<"l", "e", "a", "v", "e">>, <<"v", "a", "c", "a", "t", "i", "o", "n">>, <<"s", "i", "c", "k">>,
      <<"p", "e", "r", "f", "o", "r", "m", "a", "n", "c", "e", " ", "r", "e", "v", "i", "e", "w">>,
      <<"p", "r", "o", "m", "o", "t", "i", "o", "n">>,
      <<"t", "e", "r", "m", "i", "n", "a", "t", "i", "o", "n">>,
      <<"r", "e", "s", "i", "g", "n", "a", "t", "i", "o", "n">>, <<"p", "o", "l", "i", "c", "y">>,
      <<"c", "o", "m", "p", "l", "i", "a", "n", "c", "e">>,
      <<"h", "a", "r", "a", "s", "s", "m", "e", "n", "t">>, <<"d", "i", "v", "e", "r", "s", "i", "t", "y">>,
      <<"c", "o", "m", "p", "e", "n", "s", "a", "t", "i", "o", "n">>, <<"s", "a", "l", "a", "r", "y">>,
      <<"b", "o", "n", "u", "s">>, <<"H", "R">>,
      <<"h", "u", "m", "a", "n", " ", "r", "e", "s", "o", "u", "r", "c", "e", "s">>,
      <<"p", "e", "r", "s", "o", "n", "n", "e", "l">>, <<"w", "o", "r", "k", "f", "o", "r", "c", "e">>,
      <<"t", "a", "l", "e", "n", "t">>, <<"c", "a", "n", "d", "i", "d", "a", "t", "e">>,
      <<"a", "p", "p", "l", "i", "c", "a", "n", "t">>, <<"j", "o", "b">>,
      <<"p", "o", "s", "i", "t", "i", "o", "n">>, <<"r", "o", "l", "e">>,
      <<"t", "e", "a", "m", " ", "m", "e", "m", "b", "e", "r">>, <<"m", "a", "n", "a", "g", "e", "r">>,
      <<"s", "u", "p", "e", "r", "v", "i", "s", "o", "r">>,
      <<"d", "e", "p", "a", "r", "t", "m", "e", "n", "t">>, <<"o", "f", "f", "i", "c", "e">>,
      <<"w", "o", "r", "k", "p", "l", "a", "c", "e">>, <<"s", "a", "f", "e", "t", "y">>,
      <<"i", "n", "c", "i", "d", "e", "n", "t">>, <<"i", "n", "j", "u", "r", "y">>,
      <<"h", "e", "a", "l", "t", "h">>, <<"i", "n", "s", "u", "r", "a", "n", "c", "e">>,
      <<"r", "e", "t", "i", "r", "e", "m", "e", "n", "t">>, <<"4", "0", "1", "k">>, <<"p", "t", "o">>,
      <<"t", "i", "m", "e", " ", "o", "f", "f">>, <<"h", "o", "l", "i", "d", "a", "y">>,
      <<"o", "v", "e", "r", "t", "i", "m", "e">>, <<"s", "c", "h", "e", "d", "u", "l", "e">>,
      <<"s", "h", "i", "f", "t">>, <<"w", "o", "r", "k">>,
      <<"e", "m", "p", "l", "o", "y", "m", "e", "n", "t">>, <<"c", "o", "n", "t", "r", "a", "c", "t">>,
      <<"a", "g", "r", "e", "e", "m", "e", "n", "t">>, <<"e", "v", "a", "l", "u", "a", "t", "i", "o", "n">>,
      <<"f", "e", "e", "d", "b", "a", "c", "k">>
     >>,
   Operations |->
     <<
      <<"p", "r", "o", "c", "e", "s", "s">>, <<"w", "o", "r", "k", "f", "l", "o", "w">>,
      <<"p", "r", "o", "c", "e", "d", "u", "r", "e">>, <<"p", "r", "o", "j", "e", "c", "t">>,
      <<"t", "a", "s", "k">>, <<"d", "e", "a", "d", "l", "i", "n", "e">>,
      <<"m", "e", "e", "t", "i", "n", "g">>, <<"s", "c", "h", "e", "d", "u", "l", "e">>,
      <<"p", "l", "a", "n", "n", "i", "n", "g">>, <<"b", "u", "d", "g", "e", "t">>, <<"c", "o", "s", "t">>,
      <<"v", "e", "n", "d", "o", "r">>, <<"c", "o", "n", "t", "r", "a", "c", "t">>,
      <<"p", "r", "o", "c", "u", "r", "e", "m", "e", "n", "t">>, <<"q", "u", "a", "l", "i", "t", "y">>,
      <<"a", "u", "d", "i", "t">>, <<"c", "o", "m", "p", "l", "i", "a", "n", "c", "e">>,
      <<"r", "e", "p", "o", "r", "t", "i", "n", "g">>, <<"a", "n", "a", "l", "y", "t", "i", "c", "s">>,
      <<"m", "e", "t", "r", "i", "c", "s">>, <<"k", "p", "i">>,
      <<"i", "m", "p", "r", "o", "v", "e", "m", "e", "n", "t">>,
      <<"o", "p", "e", "r", "a", "t", "i", "o", "n", "s">>, <<"b", "u", "s", "i", "n", "e", "s", "s">>,
      <<"m", "a", "n", "a", "g", "e", "m", "e", "n", "t">>,
      <<"c", "o", "o", "r", "d", "i", "n", "a", "t", "i", "o", "n">>,
      <<"s", "u", "p", "p", "l", "i", "e", "r">>, <<"d", "e", "l", "i", "v", "e", "r", "y">>,
      <<"s", "h", "i", "p", "m", "e", "n", "t">>, <<"i", "n", "v", "e", "n", "t", "o", "r", "y">>,
      <<"s", "t", "o", "c", "k">>, <<"w", "a", "r", "e", "h", "o", "u", "s", "e">>,
      <<"p", "r", "o", "d", "u", "c", "t", "i", "o", "n">>,
      <<"m", "a", "n", "u", "f", "a", "c", "t", "u", "r", "i", "n", "g">>,
      <<"s", "u", "p", "p", "l", "y", " ", "c", "h", "a", "i", "n">>,
      <<"l", "o", "g", "i", "s", "t", "i", "c", "s">>, <<"c", "u", "s", "t", "o", "m", "e", "r">>,
      <<"c", "l", "i", "e", "n", "t">>, <<"s", "e", "r", "v", "i", "c", "e">>,
      <<"s", "u", "p", "p", "o", "r", "t">>, <<"s", "a", "l", "e", "s">>,
      <<"m", "a", "r", "k", "e", "t", "i", "n", "g">>, <<"f", "i", "n", "a", "n", "c", "e">>,
      <<"a", "c", "c", "o", "u", "n", "t", "i", "n", "g">>, <<"i", "n", "v", "o", "i", "c", "e">>,
      <<"p", "a", "y", "m", "e", "n", "t">>, <<"r", "e", "v", "e", "n", "u", "e">>,
      <<"p", "r", "o", "f", "i", "t">>, <<"l", "o", "s", "s">>, <<"s", "t", "r", "a", "t", "e", "g", "y">>,
      <<"g", "o", "a", "l">>, <<"o", "b", "j", "e", "c", "t", "i", "v", "e">>,
      <<"m", "i", "l", "e", "s", "t", "o", "n", "e">>, <<"t", "i", "m", "e", "l", "i", "n", "e">>,
      <<"r", "e", "s", "o", "u", "r", "c", "e">>
     >>]

priority_patterns ==
  [critical |->
     <<
      <<"c", "r", "i", "t", "i", "c", "a", "l">>, <<"u", "r", "g", "e", "n", "t">>,
      <<"e", "m", "e", "r", "g", "e", "n", "c", "y">>, <<"a", "s", "a", "p">>,
      <<"i", "m", "m", "e", "d", "i", "a", "t", "e", "l", "y">>, <<"c", "r", "i", "s", "i", "s">>,
      <<"o", "u", "t", "a", "g", "e">>, <<"d", "o", "w", "n">>, <<"b", "r", "o", "k", "e", "n">>,
      <<"f", "a", "i", "l", "e", "d">>,
      <<"s", "e", "c", "u", "r", "i", "t", "y", " ", "b", "r", "e", "a", "c", "h">>,
      <<"d", "a", "t", "a", " ", "l", "o", "s", "s">>, <<"m", "a", "j", "o", "r">>,
      <<"s", "e", "v", "e", "r", "e">>, <<"b", "l", "o", "c", "k", "i", "n", "g">>,
      <<"s", "h", "o", "w", "s", "t", "o", "p", "p", "e", "r">>,
      <<"p", "r", "o", "d", "u", "c", "t", "i", "o", "n">>, <<"l", "i", "v", "e">>,
      <<"b", "u", "s", "i", "n", "e", "s", "s", " ", "d", "i", "s", "r", "u", "p", "t", "i", "o", "n">>,
      <<"r", "e", "v", "e", "n", "u", "e", " ", "l", "o", "s", "s">>,
      <<"c", "a", "n", "n", "o", "t", " ", "a", "c", "c", "e", "s", "s">>,
      <<"n", "o", "t", " ", "w", "o", "r", "k", "i", "n", "g">>,
      <<"c", "o", "m", "p", "l", "e", "t", "e", "l", "y">>, <<"t", "o", "t", "a", "l", "l", "y">>,
      <<"a", "l", "l", " ", "u", "s", "e", "r", "s">>,
      <<"e", "n", "t", "i", "r", "e", " ", "s", "y", "s", "t", "e", "m">>, <<"h", "a", "l", "t">>
     >>,
   high |->
     <<
      <<"h", "i", "g", "h">>, <<"i", "m", "p", "o", "r", "t", "a", "n", "t">>,
      <<"p", "r", "i", "o", "r", "i", "t", "y">>, <<"s", "o", "o", "n">>,
      <<"q", "u", "i", "c", "k", "l", "y">>, <<"f", "a", "s", "t">>,
      <<"e", "s", "c", "a", "l", "a", "t", "e">>, <<"d", "e", "a", "d", "l", "i", "n", "e">>,
      <<"t", "i", "m", "e", " ", "s", "e", "n", "s", "i", "t", "i", "v", "e">>,
      <<"u", "r", "g", "e", "n", "t">>,
      <<"n", "e", "e", "d", "s", " ", "a", "t", "t", "e", "n", "t", "i", "o", "n">>,
      <<"s", "i", "g", "n", "i", "f", "i", "c", "a", "n", "t">>,
      <<"a", "f", "f", "e", "c", "t", "i", "n", "g">>, <<"i", "m", "p", "a", "c", "t">>,
      <<"m", "u", "l", "t", "i", "p", "l", "e", " ", "u", "s", "e", "r", "s">>, <<"t", "e", "a", "m">>,
      <<"d", "e", "p", "a", "r", "t", "m", "e", "n", "t">>, <<"e", "x", "p", "i", "r", "e", "s">>,
      <<"r", "e", "n", "e", "w", "a", "l">>, <<"c", "o", "n", "t", "r", "a", "c", "t">>,
      <<"c", "l", "i", "e", "n", "t">>, <<"c", "u", "s", "t", "o", "m", "e", "r">>, <<"a", "s", "a", "p">>
     >>,
   medium |->
     <<
      <<"m", "e", "d", "i", "u", "m">>, <<"n", "o", "r", "m", "a", "l">>,
      <<"s", "t", "a", "n", "d", "a", "r", "d">>, <<"r", "e", "g", "u", "l", "a", "r">>,
      <<"m", "o", "d", "e", "r", "a", "t", "e">>, <<"r", "o", "u", "t", "i", "n", "e">>,
      <<"s", "c", "h", "e", "d", "u", "l", "e", "d">>, <<"p", "l", "a", "n", "n", "e", "d">>,
      <<"n", "e", "x", "t", " ", "w", "e", "e", "k">>,
      <<"e", "n", "d", " ", "o", "f", " ", "w", "e", "e", "k">>, <<"m", "o", "n", "t", "h", "l", "y">>,
      <<"q", "u", "a", "r", "t", "e", "r", "l", "y">>, <<"r", "e", "v", "i", "e", "w">>,
      <<"u", "p", "d", "a", "t", "e">>, <<"i", "m", "p", "r", "o", "v", "e">>,
      <<"o", "p", "t", "i", "m", "i", "z", "e">>, <<"a", "n", "a", "l", "y", "z", "e">>
     >>,
   low |->
     <<
      <<"l", "o", "w">>, <<"m", "i", "n", "o", "r">>,
      <<"w", "h", "e", "n", " ", "p", "o", "s", "s", "i", "b", "l", "e">>,
      <<"e", "v", "e", "n", "t", "u", "a", "l", "l", "y">>,
      <<"n", "i", "c", "e", " ", "t", "o", " ", "h", "a", "v", "e">>,
      <<"e", "n", "h", "a", "n", "c", "e", "m", "e", "n", "t">>, <<"f", "u", "t", "u", "r", "e">>,
      <<"o", "p", "t", "i", "o", "n", "a", "l">>, <<"c", "o", "n", "v", "e", "n", "i", "e", "n", "c", "e">>,
      <<"t", "i", "m", "e", " ", "p", "e", "r", "m", "i", "t", "s">>,
      <<"n", "o", " ", "d", "e", "a", "d", "l", "i", "n", "e">>, <<"n", "o", " ", "r", "u", "s", "h">>,
      <<"b", "a", "c", "k", "g", "r", "o", "u", "n", "d">>,
      <<"d", "o", "c", "u", "m", "e", "n", "t", "a", "t", "i", "o", "n">>,
      <<"c", "l", "e", "a", "n", "u", "p">>
     >>]

category_skills ==
  [IT |->
     <<
      <<"p", "r", "o", "g", "r", "a", "m", "m", "i", "n", "g">>, <<"d", "a", "t", "a", "b", "a", "s", "e">>,
      <<"n", "e", "t", "w", "o", "r", "k">>, <<"s", "e", "c", "u", "r", "i", "t", "y">>,
      <<"i", "n", "f", "r", "a", "s", "t", "r", "u", "c", "t", "u", "r", "e">>, <<"c", "l", "o", "u", "d">>,
      <<"d", "e", "v", "o", "p", "s">>,
      <<"s", "y", "s", "t", "e", "m", " ", "a", "d", "m", "i", "n", "i", "s", "t", "r", "a", "t", "i", "o", "n">>,
      <<"t", "r", "o", "u", "b", "l", "e", "s", "h", "o", "o", "t", "i", "n", "g">>,
      <<"s", "o", "f", "t", "w", "a", "r", "e", " ", "d", "e", "v", "e", "l", "o", "p", "m", "e", "n", "t">>,
      <<"a", "p", "i">>, <<"w", "e", "b", " ", "d", "e", "v", "e", "l", "o", "p", "m", "e", "n", "t">>,
      <<"m", "o", "b", "i", "l", "e">>
     >>,
   HR |->
     <<
      <<"r", "e", "c", "r", "u", "i", "t", "m", "e", "n", "t">>,
      <<"o", "n", "b", "o", "a", "r", "d", "i", "n", "g">>, <<"p", "a", "y", "r", "o", "l", "l">>,
      <<"b", "e", "n", "e", "f", "i", "t", "s">>, <<"t", "r", "a", "i", "n", "i", "n", "g">>,
      <<"p", "e", "r", "f", "o", "r", "m", "a", "n", "c", "e", " ", "m", "a", "n", "a", "g", "e", "m", "e", "n", "t">>,
      <<"e", "m", "p", "l", "o", "y", "e", "e", " ", "r", "e", "l", "a", "t", "i", "o", "n", "s">>,
      <<"c", "o", "m", "p", "l", "i", "a", "n", "c", "e">>,
      <<"p", "o", "l", "i", "c", "y", " ", "d", "e", "v", "e", "l", "o", "p", "m", "e", "n", "t">>,
      <<"t", "a", "l", "e", "n", "t", " ", "a", "c", "q", "u", "i", "s", "i", "t", "i", "o", "n">>,
      <<"c", "o", "m", "p", "e", "n", "s", "a", "t", "i", "o", "n">>
     >>,
   Operations |->
     <<
      <<"p", "r", "o", "j", "e", "c", "t", " ", "m", "a", "n", "a", "g", "e", "m", "e", "n", "t">>,
      <<"p", "r", "o", "c", "e", "s", "s", " ", "i", "m", "p", "r", "o", "v", "e", "m", "e", "n", "t">>,
      <<"q", "u", "a", "l", "i", "t", "y", " ", "a", "s", "s", "u", "r", "a", "n", "c", "e">>,
      <<"v", "e", "n", "d", "o", "r", " ", "m", "a", "n", "a", "g", "e", "m", "e", "n", "t">>,
      <<"b", "u", "d", "g", "e", "t", " ", "p", "l", "a", "n", "n", "i", "n", "g">>,
      <<"a", "n", "a", "l", "y", "t", "i", "c", "s">>, <<"r", "e", "p", "o", "r", "t", "i", "n", "g">>,
      <<"b", "u", "s", "i", "n", "e", "s", "s", " ", "a", "n", "a", "l", "y", "s", "i", "s">>,
      <<"c", "o", "o", "r", "d", "i", "n", "a", "t", "i", "o", "n">>,
      <<"l", "o", "g", "i", "s", "t", "i", "c", "s">>,
      <<"p", "r", "o", "c", "u", "r", "e", "m", "e", "n", "t">>
     >>]

\* pattern.lower() of every pattern of a dictionary entry (lines 240 and 270)
LowerAll(patterns) == [i \in 1..Len(patterns) |-> Lower(patterns[i])] \o <<>>

LowerCategoryPatterns(patterns) ==
  [IT         |-> LowerAll(patterns.IT),
   HR         |-> LowerAll(patterns.HR),
   Operations |-> LowerAll(patterns.Operations)]

LowerPriorityPatterns(patterns) ==
  [critical |-> LowerAll(patterns.critical),
   high     |-> LowerAll(patterns.high),
   medium   |-> LowerAll(patterns.medium),
   low      |-> LowerAll(patterns.low)]

category_patterns_lower == LowerCategoryPatterns(category_patterns)

priority_patterns_lower == LowerPriorityPatterns(priority_patterns)

FallbackITWords ==
  <<<<"s", "e", "r", "v", "e", "r">>,
    <<"s", "y", "s", "t", "e", "m">>,
    <<"a", "p", "p", "l", "i", "c", "a", "t", "i", "o", "n">>,
    <<"s", "o", "f", "t", "w", "a", "r", "e">>,
    <<"n", "e", "t", "w", "o", "r", "k">>>>

FallbackHRWords ==
  <<<<"e", "m", "p", "l", "o", "y", "e", "e">>,
    <<"s", "t", "a", "f", "f">>,
    <<"h", "i", "r", "e">>,
    <<"p", "a", "y", "r", "o", "l", "l">>,
    <<"t", "r", "a", "i", "n", "i", "n", "g">>>>

FallbackUrgentWords ==
  <<<<"u", "r", "g", "e", "n", "t">>,
    <<"c", "r", "i", "t", "i", "c", "a", "l">>,
    <<"e", "m", "e", "r", "g", "e", "n", "c", "y">>,
    <<"a", "s", "a", "p">>,
    <<"i", "m", "m", "e", "d", "i", "a", "t", "e", "l", "y">>>>

FallbackLowWords ==
  <<<<"l", "o", "w">>,
    <<"m", "i", "n", "o", "r">>,
    <<"w", "h", "e", "n", " ", "p", "o", "s", "s", "i", "b", "l", "e">>,
    <<"e", "v", "e", "n", "t", "u", "a", "l", "l", "y">>>>

----------------------------------------------------------------------------
(* ClassificationResult, classification.py lines 32-65.                    *)

\* ClassificationResult.__init__: the fields given, and the time of construction
ClassificationResult(category, priority, confidence, strategy_used, reasoning, category_scores, priority_scores, now) ==
  [status          |-> "ok",
   category        |-> category,
   priority        |-> priority,
   confidence      |-> confidence,
   strategy_used   |-> strategy_used,
   reasoning       |-> reasoning,
   category_scores |-> category_scores,
   priority_scores |-> priority_scores,
   timestamp       |-> now]

\* a call that raised: no result object exists
Raised(error) ==
  [status          |-> error,
   category        |-> "",
   priority        |-> "",
   confidence      |-> Zero,
   strategy_used   |-> "",
   reasoning       |-> [text |-> "", cc |-> 0, pc |-> 0],
   category_scores |-> <<>>,
   priority_scores |-> <<>>,
   timestamp       |-> 0]

\* no call made yet
NoResult == Raised("none")

\* ClassificationResult.to_dict without the timestamp entry
DecisionFields(r) ==
  [category        |-> r.category,
   priority        |-> r.priority,
   confidence      |-> r.confidence,
   strategy_used   |-> r.strategy_used,
   reasoning       |-> r.reasoning,
   category_scores |-> r.category_scores,
   priority_scores |-> r.priority_scores]

----------------------------------------------------------------------------
(* _classify_rule_based, classification.py lines 228-360.                  *)

\* line 232: f"{title} {title} {text}".lower()
FullText(text, title) == Lower(Join2(title, Join2(title, text)))

\* the weight with 1.5 for every pattern of more than one word
CategoryPatternWeightFlat(pattern_lower, title_lower) ==
  LET weight == IF NumWords(pattern_lower) > 1 THEN <<3, 2>> ELSE One
  IN  IF Contains(pattern_lower, title_lower) THEN RMul(weight, RInt(2)) ELSE weight

\* lines 246-250: weight of a matched category pattern
CategoryPatternWeight(pattern_lower, title_lower) ==
  LET words == NumWords(pattern_lower)
      weight == IF words > 1 THEN <<3 * words, 2>> ELSE One
  IN  IF Contains(pattern_lower, title_lower) THEN RMul(weight, RInt(2)) ELSE weight

\* lines 275-283: base weight of a priority tier
PriorityTierWeight(priority) ==
  CASE priority = "critical" -> RInt(3)
    [] priority = "high"     -> RInt(2)
    [] priority = "medium"   -> One
    [] OTHER                 -> <<1, 2>>

\* lines 275-287: weight of a matched priority pattern
PriorityPatternWeight(priority, pattern_lower, title_lower) ==
  IF Contains(pattern_lower, title_lower)
  THEN RMul(PriorityTierWeight(priority), <<3, 2>>)
  ELSE PriorityTierWeight(priority)

\* lines 239-241: the (lower-cased) patterns that occur in the text, by index
Matched(patterns, full_text) ==
  {i \in 1..Len(patterns) : Contains(patterns[i], full_text)}

\* lines 243-252: score += count * weight, over the matched category patterns
RECURSIVE CategorySum(_, _, _, _)
CategorySum(patterns, matched, full_text, title_lower) ==
  IF matched = {} THEN Zero
  ELSE LET i == CHOOSE j \in matched : TRUE
           pattern_lower == patterns[i]
       IN  RAdd(RMul(RInt(Count(pattern_lower, full_text)),
                     CategoryPatternWeight(pattern_lower, title_lower)),
                CategorySum(patterns, matched \ {i}, full_text, title_lower))

\* lines 256-262: normalisation of a category score of n patterns
NormalizedCategoryScore(score, matches, n) ==
  IF n > 0
  THEN RMin(RMul(RDivInt(score, n), RAdd(One, Rat(matches, n))), One)
  ELSE Zero

\* lines 243-262: the score of the patterns of one category, given the ones matched
MatchedCategoryScore(patterns, matched, full_text, title_lower) ==
  NormalizedCategoryScore(CategorySum(patterns, matched, full_text, title_lower),
                          Cardinality(matched), Len(patterns))

\* lines 236-262: the score of one category, from its lower-cased patterns
CategoryScore(patterns, full_text, title_lower) ==
  MatchedCategoryScore(patterns, Matched(patterns, full_text), full_text, title_lower)

\* lines 235-262: category_scores
CategoryScores(patterns, full_text, title_lower) ==
  [IT         |-> CategoryScore(patterns.IT, full_text, title_lower),
   HR         |-> CategoryScore(patterns.HR, full_text, title_lower),
   Operations |-> CategoryScore(patterns.Operations, full_text, title_lower)]

\* lines 272-289: score += count * weight, over the matched priority patterns
RECURSIVE PrioritySum(_, _, _, _, _)
PrioritySum(priority, patterns, matched, full_text, title_lower) ==
  IF matched = {} THEN Zero
  ELSE LET i == CHOOSE j \in matched : TRUE
           pattern_lower == patterns[i]
       IN  RAdd(RMul(RInt(Count(pattern_lower, full_text)),
                     PriorityPatternWeight(priority, pattern_lower, title_lower)),
                PrioritySum(priority, patterns, matched \ {i}, full_text, title_lower))

\* lines 293-298: normalisation of a priority score of n patterns
NormalizedPriorityScore(score, matches, n) ==
  IF n > 0
  THEN RMin(RMul(RDivInt(score, n), RAdd(One, RMul(Rat(matches, n), <<1, 2>>))), One)
  ELSE Zero

\* lines 272-298: the score of the patterns of one priority, given the ones matched
MatchedPriorityScore(priority, patterns, matched, full_text, title_lower) ==
  NormalizedPriorityScore(PrioritySum(priority, patterns, matched, full_text, title_lower),
                          Cardinality(matched), Len(patterns))

\* lines 266-298: the score of one priority, from its lower-cased patterns
PriorityScore(priority, patterns, full_text, title_lower) ==
  MatchedPriorityScore(priority, patterns, Matched(patterns, full_text), full_text,
                       title_lower)

\* lines 265-298: priority_scores
PriorityScores(patterns, full_text, title_lower) ==
  [critical |-> PriorityScore("critical", patterns.critical, full_text, title_lower),
   high     |-> PriorityScore("high", patterns.high, full_text, title_lower),
   medium   |-> PriorityScore("medium", patterns.medium, full_text, title_lower),
   low      |-> PriorityScore("low", patterns.low, full_text, title_lower)]

\* the first key, in dictionary order, whose score is the least
ArgMin(scores, order) ==
  LET best == CHOOSE i \in 1..Len(order) :
                /\ \A j \in 1..Len(order) : RLe(scores[order[i]], scores[order[j]])
                /\ \A j \in 1..(i - 1) : RLt(scores[order[i]], scores[order[j]])
  IN  order[best]

\* max(scores.items(), key=lambda x: x[1])[0]: the first key, in dictionary
\* order, whose score no other key exceeds
ArgMax(scores, order) ==
  LET best == CHOOSE i \in 1..Len(order) :
                /\ \A j \in 1..Len(order) : RLe(scores[order[j]], scores[order[i]])
                /\ \A j \in 1..(i - 1) : RLt(scores[order[j]], scores[order[i]])
  IN  order[best]

\* lines 309-318: sorted(...)[0][1] - sorted(...)[1][1]
Margin(scores, order) ==
  LET top == ArgMax(scores, order)
      others == {k \in DOMAIN scores : k # top}
      second == CHOOSE k \in others : \A j \in others : RLe(scores[j], scores[k])
  IN  IF Cardinality(DOMAIN scores) > 1 THEN RSub(scores[top], scores[second]) ELSE Zero

\* lines 320-324: the confidence of one axis, boosted for a clear winner
AxisConfidence(scores, order) ==
  IF RLt(<<1, 5>>, Margin(scores, order))
  THEN RMul(scores[ArgMax(scores, order)], <<6, 5>>)
  ELSE scores[ArgMax(scores, order)]

\* any(word in full_text for word in words)
AnyIn(words, full_text) == \E i \in 1..Len(words) : Contains(words[i], full_text)

\* lines 331-336
FallbackCategory(full_text) ==
  IF AnyIn(FallbackITWords, full_text) THEN "IT"
  ELSE IF AnyIn(FallbackHRWords, full_text) THEN "HR"
  ELSE "Operations"

\* lines 338-343
FallbackPriority(full_text) ==
  IF AnyIn(FallbackUrgentWords, full_text) THEN "high"
  ELSE IF AnyIn(FallbackLowWords, full_text) THEN "low"
  ELSE "medium"

\* the confidence left as computed
Unclamped(overall_confidence) == overall_confidence

\* line 355: confidence=min(overall_confidence, 1.0)
ClampConfidence(overall_confidence) == RMin(overall_confidence, One)

\* the low-confidence test without the test of the winning category's score
UseFallbackOnConfidence(overall_confidence, best_category_score) ==
  RLt(overall_confidence, <<1, 20>>)

\* line 329: the low-confidence test
UseFallback(overall_confidence, best_category_score) ==
  RLt(overall_confidence, <<1, 20>>) \/ RLt(best_category_score, <<1, 100>>)

\* line 326: overall_confidence = (category_confidence + priority_confidence) / 2
OverallConfidence(category_scores, priority_scores) ==
  RDivInt(RAdd(AxisConfidence(category_scores, CategoryOrder),
               AxisConfidence(priority_scores, PriorityOrder)), 2)

\* lines 329-345: the fallback decision
FallbackDecision(full_text, category_scores, priority_scores) ==
  [category        |-> FallbackCategory(full_text),
   priority        |-> FallbackPriority(full_text),
   confidence      |-> ClampConfidence(<<2, 5>>),
   reasoning       |-> [text |-> "Default classification with fallback patterns",
                        cc |-> 0, pc |-> 0],
   category_scores |-> category_scores,
   priority_scores |-> priority_scores]

\* the decision that names the first category and the first priority of the
\* dictionaries instead of the best-scored ones
ScoredDecisionOfFirstKeys(category_scores, priority_scores) ==
  [category        |-> CategoryOrder[1],
   priority        |-> PriorityOrder[1],
   confidence      |-> ClampConfidence(OverallConfidence(category_scores, priority_scores)),
   reasoning       |-> [text |-> "Rule-based classification with {cc} category confidence and {pc} priority confidence",
                        cc |-> Round2(AxisConfidence(category_scores, CategoryOrder)),
                        pc |-> Round2(AxisConfidence(priority_scores, PriorityOrder))],
   category_scores |-> category_scores,
   priority_scores |-> priority_scores]

\* lines 301-327 and 346-350: the decision the scores give
ScoredDecision(category_scores, priority_scores) ==
  [category        |-> ArgMax(category_scores, CategoryOrder),
   priority        |-> ArgMax(priority_scores, PriorityOrder),
   confidence      |-> ClampConfidence(OverallConfidence(category_scores, priority_scores)),
   reasoning       |-> [text |-> "Rule-based classification with {cc} category confidence and {pc} priority confidence",
                        cc |-> Round2(AxisConfidence(category_scores, CategoryOrder)),
                        pc |-> Round2(AxisConfidence(priority_scores, PriorityOrder))],
   category_scores |-> category_scores,
   priority_scores |-> priority_scores]

\* lines 301-350: the decision, from the text and the scores of both axes
DecisionOfScores(full_text, category_scores, priority_scores) ==
  IF UseFallback(OverallConfidence(category_scores, priority_scores),
                 category_scores[ArgMax(category_scores, CategoryOrder)])
  THEN FallbackDecision(full_text, category_scores, priority_scores)
  ELSE ScoredDecision(category_scores, priority_scores)

\* lines 235-350: the decision, from the lower-cased text and title
DecisionOfText(full_text, title_lower) ==
  DecisionOfScores(full_text,
                   CategoryScores(category_patterns_lower, full_text, title_lower),
                   PriorityScores(priority_patterns_lower, full_text, title_lower))

\* lines 231-350: everything _classify_rule_based decides, before the result
\* object is built
RuleDecision(text, title) == DecisionOfText(FullText(text, title), Lower(title))

----------------------------------------------------------------------------
(* Inputs of the rule-based classifier.                                    *)

ScenarioAText ==
  <<"P", "r", "o", "d", "u", "c", "t", "i", "o", "n", " ", "s", "e", "r", "v", "e", "r", " ", "i",
    "s", " ", "d", "o", "w", "n", ",", " ", "a", "l", "l", " ", "u", "s", "e", "r", "s", " ", "c",
    "a", "n", "n", "o", "t", " ", "a", "c", "c", "e", "s", "s", " ", "e", "m", "a", "i", "l">>

ScenarioATitle ==
  <<"O", "u", "t", "a", "g", "e">>

ScenarioBText ==
  <<"P", "l", "e", "a", "s", "e", " ", "u", "p", "d", "a", "t", "e", " ", "t", "h", "e", " ", "e",
    "m", "p", "l", "o", "y", "e", "e", " ", "h", "a", "n", "d", "b", "o", "o", "k", " ", "w", "h",
    "e", "n", " ", "c", "o", "n", "v", "e", "n", "i", "e", "n", "t">>

ScenarioBTitle ==
  <<"H", "a", "n", "d", "b", "o", "o", "k">>

StressText ==
  <<"c", "r", "i", "t", "i", "c", "a", "l", " ", "s", "u", "p", "p", "l", "y", " ", "c", "h", "a",
    "i", "n", " ", "c", "r", "i", "t", "i", "c", "a", "l", " ", "s", "u", "p", "p", "l", "y", " ",
    "c", "h", "a", "i", "n", " ", "c", "r", "i", "t", "i", "c", "a", "l", " ", "s", "u", "p", "p",
    "l", "y", " ", "c", "h", "a", "i", "n", " ", "c", "r", "i", "t", "i", "c", "a", "l", " ", "s",
    "u", "p", "p", "l", "y", " ", "c", "h", "a", "i", "n", " ", "c", "r", "i", "t", "i", "c", "a",
    "l", " ", "s", "u", "p", "p", "l", "y", " ", "c", "h", "a", "i", "n", " ", "c", "r", "i", "t",
    "i", "c", "a", "l", " ", "s", "u", "p", "p", "l", "y", " ", "c", "h", "a", "i", "n">>

StressTitle ==
  <<"c", "r", "i", "t", "i", "c", "a", "l", " ", "s", "u", "p", "p", "l", "y", " ", "c", "h", "a",
    "i", "n">>

\* a text whose priority axis is boosted above 1.0 while its category axis
\* stays low
UrgentServerText ==
  <<"s", "e", "r", "v", "e", "r", " ", "u", "r", "g", "e", "n", "t", " ", "u", "r", "g", "e", "n",
    "t", " ", "u", "r", "g", "e", "n", "t", " ", "u", "r", "g", "e", "n", "t">>

\* a text that holds a pattern of two words
SupplyChainText ==
  <<"s", "u", "p", "p", "l", "y", " ", "c", "h", "a", "i", "n">>

ServerUrgent ==
  <<"s", "e", "r", "v", "e", "r", " ", "u", "r", "g", "e", "n", "t">>

UrgentTitle == <<"U", "r", "g", "e", "n", "t">>

HandleIt == <<"H", "a", "n", "d", "l", "e">>

\* words the generated texts are made of
Vocabulary ==
  {<<"s", "e", "r", "v", "e", "r">>,
   <<"e", "m", "p", "l", "o", "y", "e", "e">>,
   <<"u", "r", "g", "e", "n", "t">>,
   <<"l", "o", "w">>,
   <<"H", "a", "n", "d", "l", "e">>}

\* titles of the generated inputs
Titles ==
  {<<>>,
   <<"S", "e", "r", "v", "e", "r">>,
   <<"U", "r", "g", "e", "n", "t">>,
   <<"L", "o", "w">>}

\* texts of exactly k vocabulary words separated by single spaces
RECURSIVE TextsOf(_)
TextsOf(k) ==
  IF k = 0 THEN {<<>>}
  ELSE {IF t = <<>> THEN w ELSE Join2(t, w) : t \in TextsOf(k - 1), w \in Vocabulary}

GeneratedTexts == UNION {TextsOf(k) : k \in 1..MaxWords}

\* <<text, title>> pairs handed to the rule-based classifier
RuleInputs ==
  (GeneratedTexts \X Titles)
    \cup {<<ScenarioAText, ScenarioATitle>>, <<ScenarioBText, ScenarioBTitle>>,
          <<StressText, StressTitle>>, <<UrgentServerText, UrgentTitle>>,
          <<SupplyChainText, <<>>>>}

\* <<text, title>> pairs of the classify calls whose text is not blank
ClassifyPairs ==
  {<<ServerUrgent, <<>>>>, <<ServerUrgent, UrgentTitle>>, <<HandleIt, <<>>>>}

----------------------------------------------------------------------------
(* _classify_rule_based on the inputs of the model.  RuleDecisionTable is  *)
(* RuleDecision tabulated over those inputs, so that TLC computes each     *)
(* decision once.                                                          *)

TabulatedInputs == RuleInputs \cup ClassifyPairs

RuleDecisionTable ==
  [input \in TabulatedInputs |-> RuleDecision(input[1], input[2])] @@ <<>>

RuleDecisionOf(text, title) ==
  IF <<text, title>> \in TabulatedInputs
  THEN RuleDecisionTable[<<text, title>>]
  ELSE RuleDecision(text, title)

\* the result object of a decision, its confidence decayed by the time of the call
AgedResultOf(d, now) ==
  ClassificationResult(d.category, d.priority, RDivInt(d.confidence, now + 1),
                       "rule_based", d.reasoning, d.category_scores,
                       d.priority_scores, now)

\* lines 352-360: the result object of a decision
ResultOf(d, now) ==
  ClassificationResult(d.category, d.priority, d.confidence, "rule_based",
                       d.reasoning, d.category_scores, d.priority_scores, now)

\* a classifier whose confidence decays with the time of the call
classify_rule_based_aged(text, title, now) ==
  AgedResultOf(RuleDecisionOf(text, title), now)

\* lines 228-360
classify_rule_based(text, title, now) == ResultOf(RuleDecisionOf(text, title), now)

----------------------------------------------------------------------------
(* The rule-based classifier applied to one input.                         *)

InitRule ==
  /\ \E input \in RuleInputs : rb_text = input[1] /\ rb_title = input[2]
  /\ rb_result = NoResult
  /\ clock = 0
  /\ cls_call = 0
  /\ cls_result = NoResult
  /\ cls_trace = <<>>
  /\ first_rule = 0
  /\ accuracy_stats = 0
  /\ returned = 0
  /\ roster = <<>>
  /\ asg_task = 0
  /\ asg_strategy = ""
  /\ asg_result = 0
  /\ asg_parts = <<>>
  /\ db = 0
  /\ engine_stats = 0
  /\ agents = 0
  /\ sub_results = 0
  /\ combined = 0

\* classification_system._classify_rule_based(text, title)
RuleBasedCall ==
  /\ rb_result.status = "none"
  /\ rb_result' = classify_rule_based(rb_text, rb_title, clock)
  /\ UNCHANGED <<rb_text, rb_title, cls_vars, asg_vars, db_vars, comb_vars>>

NextRule == RuleBasedCall

SpecRule == InitRule /\ [][NextRule]_vars

\* C1: for every text that is not blank and every title, rule-based
\* classification returns a result (it does not raise) whose confidence lies
\* in [0, 1], whose category is a TaskCategory and whose priority is a
\* TaskPriority.
C1_RuleBasedResultInRange ==
  (rb_result.status # "none" /\ rb_text # <<>> /\ ~IsBlank(rb_text)) =>
    /\ rb_result.status = "ok"
    /\ RLe(Zero, rb_result.confidence)
    /\ RLe(rb_result.confidence, One)
    /\ rb_result.category \in TaskCategory
    /\ rb_result.priority \in TaskPriority

\* a text whose computed confidence exceeds 1 has been classified
C1_Witness ==
  /\ rb_text = StressText
  /\ rb_title = StressTitle
  /\ rb_result.status = "ok"
  /\ rb_result.confidence = One
  /\ rb_result.category = "Operations"

\* C2: rule-based classification of "Please update the employee handbook when
\* convenient" with title "Handbook" returns category HR and priority Low.
C2_ScenarioB ==
  (rb_text = ScenarioBText /\ rb_title = ScenarioBTitle /\ rb_result.status # "none") =>
    /\ rb_result.status = "ok"
    /\ rb_result.category = "HR"
    /\ rb_result.priority = "low"

\* C3: rule-based classification of "Production server is down, all users
\* cannot access email" with title "Outage" returns category IT and priority
\* Critical.
C3_ScenarioA ==
  (rb_text = ScenarioAText /\ rb_title = ScenarioATitle /\ rb_result.status # "none") =>
    /\ rb_result.status = "ok"
    /\ rb_result.category = "IT"
    /\ rb_result.priority = "critical"

\* scenario A has been classified
C3_Witness ==
  /\ rb_text = ScenarioAText
  /\ rb_title = ScenarioATitle
  /\ rb_result.status = "ok"
  /\ rb_result.strategy_used = "rule_based"
  /\ RLt(<<1, 2>>, rb_result.confidence)

\* the result did not come from the coarse keyword fallback
ScoredResultReturned ==
  /\ rb_result.status = "ok"
  /\ rb_result.reasoning.text # "Default classification with fallback patterns"

\* the largest score of a score map
TopScore(scores) ==
  scores[CHOOSE k \in DOMAIN scores : \A j \in DOMAIN scores : RLe(scores[j], scores[k])]

\* the largest score among the other keys
SecondScore(scores) ==
  LET top == CHOOSE k \in DOMAIN scores : \A j \in DOMAIN scores : RLe(scores[j], scores[k])
  IN  TopScore([k \in DOMAIN scores \ {top} |-> scores[k]])

\* the top score, times 1.2 and clamped to 1.0 when the gap to the second
\* exceeds 0.2
ClampedAxisConfidence(scores) ==
  IF RLt(<<1, 5>>, RSub(TopScore(scores), SecondScore(scores)))
  THEN RMin(RMul(TopScore(scores), <<6, 5>>), One)
  ELSE TopScore(scores)

\* C22: on each axis the confidence is the top score, multiplied by 1.2 and
\* clamped to 1.0 when the gap between the top and the second-best score
\* exceeds 0.2, and the overall confidence of a result that is no fallback is
\* the mean of the two axis confidences so computed.
C22_AxisConfidenceClamped ==
  ScoredResultReturned =>
    rb_result.confidence =
      RDivInt(RAdd(ClampedAxisConfidence(rb_result.category_scores),
                   ClampedAxisConfidence(rb_result.priority_scores)), 2)

\* the top score, times 1.2 when the gap to the second exceeds 0.2
BoostedAxisConfidence(scores) ==
  IF RLt(<<1, 5>>, RSub(TopScore(scores), SecondScore(scores)))
  THEN RMul(TopScore(scores), <<6, 5>>)
  ELSE TopScore(scores)

\* the scored overall confidence is below 0.05 or the winning category's
\* score is below 0.01
BelowThresholds ==
  \/ RLt(RDivInt(RAdd(BoostedAxisConfidence(rb_result.category_scores),
                      BoostedAxisConfidence(rb_result.priority_scores)), 2), <<1, 20>>)
  \/ RLt(TopScore(rb_result.category_scores), <<1, 100>>)

\* the category and the priority of the coarse keyword check
CoarseCategory ==
  IF AnyIn(FallbackITWords, FullText(rb_text, rb_title)) THEN "IT"
  ELSE IF AnyIn(FallbackHRWords, FullText(rb_text, rb_title)) THEN "HR"
  ELSE "Operations"

CoarsePriority ==
  IF AnyIn(FallbackUrgentWords, FullText(rb_text, rb_title)) THEN "high"
  ELSE IF AnyIn(FallbackLowWords, FullText(rb_text, rb_title)) THEN "low"
  ELSE "medium"

\* C23: whenever the scored overall confidence is below 0.05 or the winning
\* category's score is below 0.01, rule-based classification does not raise
\* and discards the scored winners: category and priority come from the
\* coarse keyword checks, the confidence is exactly 0.4 and the reasoning
\* states that the fallback was used; otherwise the scored arg-max category
\* and priority are returned.
C23_FallbackBelowThresholds ==
  rb_result.status # "none" =>
    /\ rb_result.status = "ok"
    /\ IF BelowThresholds
       THEN /\ rb_result.category = CoarseCategory
            /\ rb_result.priority = CoarsePriority
            /\ rb_result.confidence = <<2, 5>>
            /\ rb_result.reasoning.text = "Default classification with fallback patterns"
       ELSE /\ rb_result.category_scores[rb_result.category]
                 = TopScore(rb_result.category_scores)
            /\ rb_result.priority_scores[rb_result.priority]
                 = TopScore(rb_result.priority_scores)
            /\ rb_result.reasoning.text # "Default classification with fallback patterns"

\* a text that names an urgency but no category: its scored priority is
\* critical with a confidence above 0.05, and the fallback returned
\* Operations and high
C23_Witness ==
  /\ rb_result.status = "ok"
  /\ TopScore(rb_result.category_scores) = Zero
  /\ RLt(<<1, 20>>, TopScore(rb_result.priority_scores))
  /\ rb_result.priority_scores["critical"] = TopScore(rb_result.priority_scores)
  /\ rb_result.category = "Operations"
  /\ rb_result.priority = "high"
  /\ rb_result.confidence = <<2, 5>>

\* the returned category and the returned priority have the largest score of
\* the score maps returned with them
ReturnedAreTopScored ==
  /\ rb_result.category_scores[rb_result.category] = TopScore(rb_result.category_scores)
  /\ rb_result.priority_scores[rb_result.priority] = TopScore(rb_result.priority_scores)

\* C30 as stated: in every result of rule-based classification, the returned
\* category has the maximal score of the returned category score map and the
\* returned priority the maximal score of the returned priority score map.
C30_ReturnedAlwaysTopScored ==
  rb_result.status = "ok" => ReturnedAreTopScored

\* C30: in every result of rule-based classification that is not the coarse
\* keyword fallback, the returned category has the maximal score of the
\* returned category score map and the returned priority the maximal score of
\* the returned priority score map.
C30_ScoredResultTopScored ==
  ScoredResultReturned => ReturnedAreTopScored

\* a scored result whose category and priority each beat another key
C30_Witness ==
  /\ ScoredResultReturned
  /\ ReturnedAreTopScored
  /\ \E k \in DOMAIN rb_result.category_scores :
       RLt(rb_result.category_scores[k], rb_result.category_scores[rb_result.category])
  /\ \E k \in DOMAIN rb_result.priority_scores :
       RLt(rb_result.priority_scores[k], rb_result.priority_scores[rb_result.priority])

\* occurrences * weight of one pattern in the combined text, the weight of a
\* pattern of several words being multi_word_weight times 1 or times its
\* number of words, and doubled when the pattern occurs in the title
StatedTerm(pattern, per_word, full_text, title_lower) ==
  IF ~Contains(pattern, full_text) THEN Zero
  ELSE RMul(RInt(Count(pattern, full_text) * (IF Contains(pattern, title_lower) THEN 2 ELSE 1)),
            IF NumWords(pattern) = 1 THEN One
            ELSE IF per_word THEN <<3 * NumWords(pattern), 2>>
            ELSE <<3, 2>>)

\* S: the sum of the terms of the patterns that occur
RECURSIVE StatedSum(_, _, _, _, _)
StatedSum(patterns, occurring, per_word, full_text, title_lower) ==
  IF occurring = {} THEN Zero
  ELSE RAdd(StatedTerm(patterns[CHOOSE i \in occurring : TRUE], per_word, full_text,
                       title_lower),
            StatedSum(patterns, occurring \ {CHOOSE i \in occurring : TRUE}, per_word,
                      full_text, title_lower))

\* min(1.0, (S / N) * (1 + M / N)), given the patterns that occur
StatedScoreOf(patterns, occurring, per_word, full_text, title_lower) ==
  RMin(One,
       RMul(RDivInt(StatedSum(patterns, occurring, per_word, full_text, title_lower),
                    Len(patterns)),
            RAdd(One, Rat(Cardinality(occurring), Len(patterns)))))

StatedCategoryScore(patterns, per_word, full_text, title_lower) ==
  StatedScoreOf(patterns, {i \in 1..Len(patterns) : Contains(patterns[i], full_text)},
                per_word, full_text, title_lower)

StatedCategoryScores(per_word) ==
  [c \in TaskCategory |->
     StatedCategoryScore(LowerAll(category_patterns[c]), per_word,
                         Lower(Join2(rb_title, Join2(rb_title, rb_text))),
                         Lower(rb_title))]

\* C24 as stated: the category score is min(1.0, (S / N) * (1 + M / N)) with
\* weight 1.0 for a single-word pattern and 1.5 for a multi-word pattern
\* whatever its number of words, doubled when the pattern occurs in the title.
C24_FlatMultiWordWeight ==
  rb_result.status = "ok" =>
    \A c \in TaskCategory : rb_result.category_scores[c] = StatedCategoryScores(FALSE)[c]

\* C24: the category score of a category with N patterns is
\* min(1.0, (S / N) * (1 + M / N)), M being the number of patterns that occur
\* in the combined text (title, title, body) and S the sum over them of
\* occurrences * weight, with weight 1.0 for a single-word pattern and 1.5
\* times its number of words for a multi-word pattern, doubled when the
\* pattern also occurs in the title.
C24_CategoryScoreFormula ==
  rb_result.status = "ok" =>
    \A c \in TaskCategory : rb_result.category_scores[c] = StatedCategoryScores(TRUE)[c]

\* "supply chain" has been scored: one pattern of two words, weight 3.0
C24_Witness ==
  /\ rb_text = SupplyChainText
  /\ rb_title = <<>>
  /\ rb_result.status = "ok"
  /\ rb_result.category_scores["Operations"] = <<168, 3025>>

----------------------------------------------------------------------------
(* ClassifierAgent, src/src/agents/classifier_agent.py.                    *)

\* TaskCategory(value) and TaskPriority(value) succeed (no ValueError)
IsTaskCategoryValue(value) == value \in TaskCategory

IsTaskPriorityValue(value) == value \in TaskPriority

\* what llm_client.generate_structured_output hands back: it raises, or it
\* returns a dict in which the required fields may be missing
LLMOutputs ==
  {[kind |-> "raises",     category |-> "",   priority |-> "",         confidence |-> Zero],
   [kind |-> "incomplete", category |-> "IT", priority |-> "",         confidence |-> Zero],
   [kind |-> "response",   category |-> "IT", priority |-> "Critical", confidence |-> <<9, 10>>],
   [kind |-> "response",   category |-> "HR", priority |-> "low",      confidence |-> <<1, 2>>]}

\* _validate_classification, lines 231-249: TRUE when it does not raise
validate_classification_result(result) ==
  /\ result.kind = "response"
  /\ result.category \in {"IT", "HR", "Operations"}
  /\ result.priority \in {"Critical", "High", "Medium", "Low"}
  /\ RLe(Zero, result.confidence) /\ RLe(result.confidence, One)

\* _store_classification, lines 251-269: TRUE when it does not raise
store_classification(result) ==
  IsTaskCategoryValue(result.category) /\ IsTaskPriorityValue(result.priority)

\* ClassifierAgent.execute, lines 86-146: the AgentResult dict, or the
\* ClassificationError every failure inside is turned into
AgentExecute(llm_output) ==
  IF /\ llm_output.kind # "raises"
     /\ validate_classification_result(llm_output)
     /\ store_classification(llm_output)
  THEN [raised |-> FALSE, success |-> TRUE, data |-> llm_output]
  ELSE [raised |-> TRUE, success |-> FALSE, data |-> llm_output]

----------------------------------------------------------------------------
(* EnhancedClassificationSystem.classify and its strategies.               *)

\* a Python value that is None or a str
PyNone == [none |-> TRUE, s |-> <<>>]

Str(s) == [none |-> FALSE, s |-> s]

ClassificationStrategy == {"llm_based", "rule_based", "hybrid", "ensemble"}

\* _classify_llm_based, lines 194-226
classify_llm_based(llm_output, now) ==
  LET agent_result == AgentExecute(llm_output)
      data == agent_result.data
  IN  IF agent_result.raised \/ ~agent_result.success THEN Raised("ClassificationError")
      ELSE IF ~IsTaskCategoryValue(data.category) \/ ~IsTaskPriorityValue(data.priority)
      THEN Raised("ValueError")
      ELSE ClassificationResult(data.category, data.priority, data.confidence, "llm_based",
                                [text |-> "LLM-based classification", cc |-> 0, pc |-> 0],
                                <<>>, <<>>, now)

\* the two results combined, the confidence on agreement left uncapped
combine_uncapped(llm_result, rule_result, now) ==
  ClassificationResult(
    llm_result.category, llm_result.priority,
    IF llm_result.category = rule_result.category /\ llm_result.priority = rule_result.priority
    THEN RAdd(RAdd(RMul(llm_result.confidence, <<7, 10>>),
                   RMul(rule_result.confidence, <<3, 10>>)), <<1, 5>>)
    ELSE RMul(llm_result.confidence, <<4, 5>>),
    "hybrid",
    [text |-> "Hybrid classification", cc |-> 0, pc |-> 0],
    llm_result.category_scores, llm_result.priority_scores, now)

\* lines 375-409: the two results combined
combine_hybrid(llm_result, rule_result, now) ==
  IF llm_result.category = rule_result.category /\ llm_result.priority = rule_result.priority
  THEN ClassificationResult(
         llm_result.category, llm_result.priority,
         RMin(RAdd(RAdd(RMul(llm_result.confidence, <<7, 10>>),
                        RMul(rule_result.confidence, <<3, 10>>)), <<1, 5>>), One),
         "hybrid",
         [text |-> "Hybrid classification with agreement between LLM and rules",
          cc |-> 0, pc |-> 0],
         llm_result.category_scores, llm_result.priority_scores, now)
  ELSE ClassificationResult(
         llm_result.category, llm_result.priority,
         RMul(llm_result.confidence, <<4, 5>>),
         "hybrid",
         [text |-> "Hybrid classification with LLM preference due to disagreement",
          cc |-> 0, pc |-> 0],
         llm_result.category_scores, llm_result.priority_scores, now)

\* a hybrid that lets the failure of the LLM classifier through
HybridOfPropagating(llm_result, rule_result, now) ==
  [result |-> IF llm_result.status # "ok"
              THEN llm_result
              ELSE combine_hybrid(llm_result, rule_result, now),
   trace  |-> <<"llm", "rule">>]

\* lines 366-409: what _classify_hybrid makes of the two results; [result, trace]
HybridOf(llm_result, rule_result, now) ==
  [result |-> IF llm_result.status # "ok" \/ rule_result.status # "ok"
              THEN rule_result
              ELSE combine_hybrid(llm_result, rule_result, now),
   trace  |-> <<"llm", "rule">>]

\* _classify_hybrid, lines 362-409; [result, trace]
classify_hybrid(text, title, llm_output, now) ==
  HybridOf(classify_llm_based(llm_output, now), classify_rule_based(text, title, now), now)

\* lines 434-448: the votes of one axis; [votes, best], votes keyed by the
\* values voted for, best the first of them (in order of insertion) with the
\* largest vote
EnsembleVote(results, field) ==
  LET voted == {results[i][field] : i \in 1..Len(results)}
      votes == [v \in voted |->
                  RSumSeq([i \in 1..Len(results) |->
                             IF results[i][field] = v THEN results[i].confidence ELSE Zero]
                          \o <<>>)]
      first(v) == CHOOSE i \in 1..Len(results) :
                    results[i][field] = v /\ \A j \in 1..(i - 1) : results[j][field] # v
      best == CHOOSE v \in voted :
                \A w \in voted : \/ RLt(votes[w], votes[v])
                                 \/ (votes[w] = votes[v] /\ first(v) <= first(w))
  IN  [votes |-> votes, best |-> best]

\* lines 415-429: the results of the strategies that did not fail
EnsembleResults(llm_result, rule_result) ==
  (IF llm_result.status = "ok" THEN <<llm_result>> ELSE <<>>)
    \o (IF rule_result.status = "ok" THEN <<rule_result>> ELSE <<>>)

\* total_confidence, not divided by the number of results
EnsembleConfidenceTotal(results) ==
  RSumSeq([i \in 1..Len(results) |-> results[i].confidence] \o <<>>)

\* lines 450-452: ensemble_confidence = total_confidence / len(results)
EnsembleConfidence(results) ==
  RDivInt(RSumSeq([i \in 1..Len(results) |-> results[i].confidence] \o <<>>), Len(results))

\* lines 454-461: the result built from the votes of both axes
EnsembleResult(results, category_vote, priority_vote, now) ==
  ClassificationResult(
    category_vote.best, priority_vote.best,
    RMin(EnsembleConfidence(results), One), "ensemble",
    [text |-> "Ensemble classification from {n} strategies",
     cc |-> Len(results), pc |-> 0],
    category_vote.votes, priority_vote.votes, now)

\* lines 431-461: what _classify_ensemble makes of the results; [result, trace]
EnsembleOf(results, now) ==
  [result |-> IF results = <<>>
              THEN Raised("ClassificationError")
              ELSE EnsembleResult(results, EnsembleVote(results, "category"),
                                  EnsembleVote(results, "priority"), now),
   trace  |-> <<"llm", "rule">>]

\* _classify_ensemble, lines 411-461; [result, trace]
classify_ensemble(text, title, llm_output, now) ==
  EnsembleOf(EnsembleResults(classify_llm_based(llm_output, now),
                             classify_rule_based(text, title, now)), now)

\* not text, without the strip
EmptyUnstripped(text) == text.none \/ text.s = <<>>

\* line 168: not text or not text.strip()
EmptyText(text) == text.none \/ text.s = <<>> \/ IsBlank(text.s)

\* the total counted, the strategy entry left alone
update_total_only(stats, result) ==
  [stats EXCEPT !.total_classifications = @ + 1]

\* _update_accuracy_stats, lines 480-491
update_accuracy_stats(stats, result) ==
  LET strategy == result.strategy_used
      by == stats.accuracy_by_strategy
      entry == IF strategy \in DOMAIN by THEN by[strategy]
               ELSE [total |-> 0, correct |-> 0, accuracy |-> Zero]
  IN  [stats EXCEPT
         !.total_classifications = @ + 1,
         !.accuracy_by_strategy =
            [k \in DOMAIN by \cup {strategy} |->
               IF k = strategy THEN [entry EXCEPT !.total = @ + 1] ELSE by[k]]]

\* lines 171-182: the strategy chosen is run; [result, trace]
RunStrategy(text, title, strategy, llm_output, now) ==
  CASE strategy = "llm_based" ->
         [result |-> classify_llm_based(llm_output, now), trace |-> <<"llm">>]
    [] strategy = "rule_based" ->
         [result |-> classify_rule_based(text, title, now), trace |-> <<"rule">>]
    [] strategy = "hybrid" -> classify_hybrid(text, title, llm_output, now)
    [] strategy = "ensemble" -> classify_ensemble(text, title, llm_output, now)

\* lines 184-192: the statistics are updated and the result returned, or the
\* failure is raised as a ClassificationError; [result, trace, stats]
Completed(run, stats) ==
  IF run.result.status = "ok"
  THEN [result |-> run.result, trace |-> run.trace,
        stats  |-> update_accuracy_stats(stats, run.result)]
  ELSE [result |-> Raised("ClassificationError"), trace |-> run.trace,
        stats  |-> stats]

\* classify, lines 159-192; [result, trace, stats]
classify(text, title, strategy, llm_output, now, stats) ==
  IF EmptyText(text)
  THEN [result |-> Raised("ClassificationError"), trace |-> <<>>, stats |-> stats]
  ELSE Completed(RunStrategy(text.s, title, strategy, llm_output, now), stats)

\* the 'total' values of the entries of an accuracy dictionary, summed
RECURSIVE SumTotals(_, _)
SumTotals(by, keys) ==
  IF keys = {} THEN 0
  ELSE LET k == CHOOSE key \in keys : TRUE
       IN  by[k].total + SumTotals(by, keys \ {k})

\* lines 528-535 and 539-546: the entry of the key is created if absent, its
\* total is counted, and its correct count too on a match
CountValidated(by, key, matches) ==
  [k \in DOMAIN by \cup {key} |->
     IF k # key THEN by[k]
     ELSE IF k \in DOMAIN by
     THEN [by[k] EXCEPT !.total = @ + 1, !.correct = @ + (IF matches THEN 1 ELSE 0)]
     ELSE [total |-> 1, correct |-> IF matches THEN 1 ELSE 0, accuracy |-> Zero]] @@ <<>>

\* _recalculate_accuracy_percentages, lines 553-570, on one dictionary
Recalculated(by) ==
  [k \in DOMAIN by |->
     IF by[k].total > 0
     THEN [by[k] EXCEPT !.accuracy = Rat(by[k].correct, by[k].total)]
     ELSE by[k]] @@ <<>>

\* validate_classification, lines 510-551: the statistics it leaves
validate_classification(stats, result, expected_category, expected_priority) ==
  [total_classifications   |-> stats.total_classifications,
   correct_classifications |->
     IF result.category = expected_category /\ result.priority = expected_priority
     THEN stats.correct_classifications + 1
     ELSE stats.correct_classifications,
   accuracy_by_strategy    |-> Recalculated(stats.accuracy_by_strategy),
   accuracy_by_category    |->
     Recalculated(CountValidated(stats.accuracy_by_category, expected_category,
                                 result.category = expected_category)),
   accuracy_by_priority    |->
     Recalculated(CountValidated(stats.accuracy_by_priority, expected_priority,
                                 result.priority = expected_priority))]

----------------------------------------------------------------------------
(* The classification system in use: classify calls while time passes.     *)

\* None, the empty string and whitespace-only strings
BlankTexts == {PyNone, Str(<<>>), Str(<<" ", " ">>), Str(<<" ", "\t", "\n">>)}

\* texts passed to classify
ClassifyTexts == BlankTexts \cup {Str(pair[1]) : pair \in ClassifyPairs}

\* <<text, title>> arguments of the classify calls
ClassifyArgs ==
  {<<text, title>> \in ClassifyTexts \X {<<>>, UrgentTitle} :
     \/ text \in BlankTexts /\ (title = <<>> \/ text = PyNone)
     \/ text \notin BlankTexts /\ <<text.s, title>> \in ClassifyPairs}

\* no classify call made yet
NoCall == [text |-> PyNone, title |-> <<>>, strategy |-> "none", llm_output |-> "none"]

\* one more result with this strategy_used label has been returned
CountReturned(counts, label) ==
  [k \in DOMAIN counts \cup {label} |->
     IF k \in DOMAIN counts
     THEN (IF k = label THEN counts[k] + 1 ELSE counts[k])
     ELSE 1] @@ <<>>

NoFirst == [set |-> FALSE, text |-> <<>>, title |-> <<>>, result |-> NoResult, total |-> 0]

InitClassify ==
  /\ clock = 0
  /\ cls_call = NoCall
  /\ cls_result = NoResult
  /\ cls_trace = <<>>
  /\ first_rule = NoFirst
  /\ returned = <<>>
  /\ accuracy_stats = [total_classifications   |-> 0,
                       correct_classifications |-> 0,
                       accuracy_by_strategy    |-> <<>>,
                       accuracy_by_category    |-> <<>>,
                       accuracy_by_priority    |-> <<>>]
  /\ rb_text = <<>>
  /\ rb_title = <<>>
  /\ rb_result = NoResult
  /\ roster = <<>>
  /\ asg_task = 0
  /\ asg_strategy = ""
  /\ asg_result = 0
  /\ asg_parts = <<>>
  /\ db = 0
  /\ engine_stats = 0
  /\ agents = 0
  /\ sub_results = 0
  /\ combined = 0

\* datetime.utcnow() advances
Tick ==
  /\ clock < MaxClock
  /\ clock' = clock + 1
  /\ UNCHANGED <<cls_call, cls_result, cls_trace, first_rule, accuracy_stats,
                 returned, rb_vars, asg_vars, db_vars, comb_vars>>

\* the call classify(text, title, strategy) returns or raises out
ClassifyReturns(args, strategy, llm_output, out) ==
  /\ cls_call' = [text |-> args[1], title |-> args[2], strategy |-> strategy,
                  llm_output |-> llm_output]
  /\ returned' = IF out.result.status = "ok"
                 THEN CountReturned(returned, out.result.strategy_used)
                 ELSE returned
  /\ cls_result' = out.result
  /\ cls_trace' = out.trace
  /\ accuracy_stats' = out.stats
  /\ first_rule' =
       IF ~first_rule.set /\ strategy = "rule_based" /\ out.result.status = "ok"
       THEN [set |-> TRUE, text |-> args[1].s, title |-> args[2],
             result |-> out.result, total |-> out.stats.total_classifications]
       ELSE first_rule

\* classification_system.classify(text, title, strategy), the arguments and
\* the answer of the LLM client drawn from the sets given
ClassifyWith(arguments, llm_outputs) ==
  /\ accuracy_stats.total_classifications < MaxCalls
  /\ \E args \in arguments, strategy \in ClassificationStrategy, llm_output \in llm_outputs :
       ClassifyReturns(args, strategy, llm_output,
                       classify(args[1], args[2], strategy, llm_output, clock,
                                accuracy_stats))
  /\ UNCHANGED <<clock, rb_vars, asg_vars, db_vars, comb_vars>>

Classify == ClassifyWith(ClassifyArgs, LLMOutputs)

NextClassify == Tick \/ Classify

SpecClassify == InitClassify /\ [][NextClassify]_vars

\* <<expected_category, expected_priority>> handed to validate_classification
ExpectedPairs == {<<"IT", "critical">>, <<"IT", "high">>, <<"HR", "medium">>}

\* validate_classification calls made so far
Validations == SumTotals(accuracy_stats.accuracy_by_category,
                         DOMAIN accuracy_stats.accuracy_by_category)

\* classification_system.validate_classification(result, expected_category,
\* expected_priority), result being the one classify returned last
Validate ==
  /\ cls_result.status = "ok"
  /\ Validations < MaxValidations
  /\ \E expected \in ExpectedPairs :
       accuracy_stats' = validate_classification(accuracy_stats, cls_result,
                                                 expected[1], expected[2])
  /\ UNCHANGED <<clock, cls_call, cls_result, cls_trace, first_rule, returned,
                 rb_vars, asg_vars, db_vars, comb_vars>>

\* the classify calls made between validations
StatsArgs == {<<PyNone, <<>>>>, <<Str(ServerUrgent), UrgentTitle>>}

StatsLLMOutputs == {llm_output \in LLMOutputs : llm_output.kind # "incomplete"}

ClassifyAny == ClassifyWith(StatsArgs, StatsLLMOutputs)

NextStats == ClassifyAny \/ Validate

\* classify and validate_classification calls in any order
SpecStats == InitClassify /\ [][NextStats]_vars

\* the results classify has returned, counted
RECURSIVE SumCounts(_, _)
SumCounts(counts, keys) ==
  IF keys = {} THEN 0
  ELSE LET k == CHOOSE key \in keys : TRUE
       IN  counts[k] + SumCounts(counts, keys \ {k})

\* C13: after any sequence of classify and validate_classification calls
\* from zeroed statistics, total_classifications is the number of classify
\* calls that returned a result, accuracy_by_strategy has an entry for the
\* strategy_used label of every returned result, and the per-strategy totals
\* sum to total_classifications.
C13_StatisticsCountReturnedResults ==
  /\ accuracy_stats.total_classifications = SumCounts(returned, DOMAIN returned)
  /\ DOMAIN returned \subseteq DOMAIN accuracy_stats.accuracy_by_strategy
  /\ \A label \in DOMAIN returned :
       accuracy_stats.accuracy_by_strategy[label].total = returned[label]
  /\ SumTotals(accuracy_stats.accuracy_by_strategy,
               DOMAIN accuracy_stats.accuracy_by_strategy)
       = accuracy_stats.total_classifications

\* results under two labels were returned and validated, and the last call failed
C13_Witness ==
  /\ Cardinality(DOMAIN returned) = 2
  /\ accuracy_stats.total_classifications = 2
  /\ Validations = 2
  /\ cls_call.strategy # "none"
  /\ cls_result.status = "ClassificationError"

\* the 'correct' values of the entries of an accuracy dictionary, summed
RECURSIVE SumCorrect(_, _)
SumCorrect(by, keys) ==
  IF keys = {} THEN 0
  ELSE by[CHOOSE key \in keys : TRUE].correct
         + SumCorrect(by, keys \ {CHOOSE key \in keys : TRUE})

\* every entry of the dictionary that has counted something reports
\* correct / total
AccuracyIsRatio(by) ==
  \A k \in DOMAIN by :
    (Validations > 0 /\ by[k].total > 0) => by[k].accuracy = Rat(by[k].correct, by[k].total)

\* C26: after every validate_classification call each per-strategy,
\* per-category and per-priority entry with total > 0 has accuracy =
\* correct / total, correct being the number of validated results under that
\* key that matched the expected value: the results validated as correct are
\* counted as correct under their strategies.
C26_AccuracyReflectsValidated ==
  /\ AccuracyIsRatio(accuracy_stats.accuracy_by_strategy)
  /\ AccuracyIsRatio(accuracy_stats.accuracy_by_category)
  /\ AccuracyIsRatio(accuracy_stats.accuracy_by_priority)
  /\ SumCorrect(accuracy_stats.accuracy_by_strategy,
                DOMAIN accuracy_stats.accuracy_by_strategy)
       = accuracy_stats.correct_classifications

\* C28: after any sequence of classify and validate_classification calls,
\* the same result validated more than once included, correct_classifications
\* is at most total_classifications, so that the overall accuracy reported
\* lies in [0, 1].
C28_CorrectWithinTotal ==
  accuracy_stats.correct_classifications <= accuracy_stats.total_classifications

\* C5: classify called with a text that is None, empty or whitespace only
\* raises ClassificationError under every strategy, before any classifier
\* runs, and leaves the accuracy counters unchanged.
C5_BlankTextRaises ==
  [][(clock' = clock /\ cls_call'.text \in BlankTexts) =>
       /\ cls_result'.status = "ClassificationError"
       /\ cls_trace' = <<>>
       /\ accuracy_stats' = accuracy_stats]_vars

\* a whitespace-only text was rejected after other calls had been counted
C5_Witness ==
  /\ cls_call.text = Str(<<" ", "\t", "\n">>)
  /\ cls_call.strategy = "hybrid"
  /\ cls_result.status = "ClassificationError"
  /\ cls_trace = <<>>
  /\ accuracy_stats.total_classifications = 2

\* the last call was a successful rule-based call with the text and title of
\* the first such call
SameRuleCallAgain ==
  /\ first_rule.set
  /\ cls_call.strategy = "rule_based"
  /\ cls_result.status = "ok"
  /\ ~cls_call.text.none
  /\ cls_call.text.s = first_rule.text
  /\ cls_call.title = first_rule.title

CalledWithText == cls_call.strategy # "none" /\ cls_call.text \notin BlankTexts

\* the LLM classifier failed in the last classify call
LLMFailed == classify_llm_based(cls_call.llm_output, 0).status # "ok"

\* C11: when the LLM classifier fails, classify with the HYBRID strategy does
\* not raise but returns exactly the rule-based result for the same text and
\* title, labelled "rule_based"; with the LLM_BASED strategy the same failure
\* makes classify raise ClassificationError.
C11_HybridDegradesToRules ==
  (CalledWithText /\ LLMFailed) =>
    /\ cls_call.strategy = "hybrid" =>
         /\ cls_result.status = "ok"
         /\ cls_result.strategy_used = "rule_based"
         /\ cls_result = classify_rule_based(cls_call.text.s, cls_call.title,
                                             cls_result.timestamp)
    /\ cls_call.strategy = "llm_based" => cls_result.status = "ClassificationError"

\* a hybrid call in which the LLM client raised came back with a result
C11_Witness ==
  /\ CalledWithText
  /\ cls_call.strategy = "hybrid"
  /\ cls_call.llm_output.kind = "raises"
  /\ cls_result.status = "ok"
  /\ cls_result.category = "IT"

\* the LLM classifier returned a response with every required field, a
\* category of IT, HR or Operations, a priority of Critical, High, Medium or
\* Low and a confidence in [0, 1]
WellFormedResponse == validate_classification_result(cls_call.llm_output)

\* the TaskPriority member a priority name of a response stands for
PriorityNamed ==
  [Critical |-> "critical", High |-> "high", Medium |-> "medium", Low |-> "low"]

\* C15: whenever the external classifier returns a well-formed response,
\* classify with the HYBRID strategy returns a result labelled "hybrid" whose
\* category and priority are the ones the external classifier gave.
C15_WellFormedResponseGivesHybrid ==
  (CalledWithText /\ cls_call.strategy = "hybrid" /\ WellFormedResponse) =>
    /\ cls_result.status = "ok"
    /\ cls_result.strategy_used = "hybrid"
    /\ cls_result.category = cls_call.llm_output.category
    /\ cls_result.priority = PriorityNamed[cls_call.llm_output.priority]

\* C21: every result classify returns, under each of the strategies
\* rule_based, llm_based, hybrid and ensemble, carries a category score map
\* with an entry for all three categories, each in [0, 1], and a priority
\* score map with an entry for all four priorities.
C21_ScoreMapsComplete ==
  (CalledWithText /\ cls_result.status = "ok") =>
    /\ DOMAIN cls_result.category_scores = TaskCategory
    /\ \A c \in TaskCategory :
         /\ RLe(Zero, cls_result.category_scores[c])
         /\ RLe(cls_result.category_scores[c], One)
    /\ DOMAIN cls_result.priority_scores = TaskPriority

----------------------------------------------------------------------------
(* The combiners of _classify_hybrid and _classify_ensemble applied to the *)
(* results of the two classifiers.                                         *)

\* confidences of the results handed to the combiners
SubConfidences == {Zero, <<2, 5>>, <<9, 10>>, One}

SubCategories == {"IT", "HR"}

SubPriorities == {"critical", "low"}

\* what _classify_llm_based hands back: a result, or it raises
LLMResults ==
  {ClassificationResult(category, priority, confidence, "llm_based",
                        [text |-> "LLM-based classification", cc |-> 0, pc |-> 0],
                        <<>>, <<>>, 0) :
     category \in SubCategories, priority \in SubPriorities, confidence \in SubConfidences}
    \cup {Raised("ClassificationError")}

\* what _classify_rule_based hands back
RuleResults ==
  {ClassificationResult(category, priority, confidence, "rule_based",
                        [text |-> "Default classification with fallback patterns",
                         cc |-> 0, pc |-> 0],
                        <<>>, <<>>, 0) :
     category \in SubCategories, priority \in SubPriorities, confidence \in SubConfidences}

NotCombined == [by |-> "none", result |-> NoResult]

InitCombine ==
  /\ sub_results \in [llm : LLMResults, rule : RuleResults]
  /\ combined = NotCombined
  /\ rb_text = <<>>
  /\ rb_title = <<>>
  /\ rb_result = NoResult
  /\ clock = 0
  /\ cls_call = 0
  /\ cls_result = NoResult
  /\ cls_trace = <<>>
  /\ first_rule = 0
  /\ accuracy_stats = 0
  /\ returned = 0
  /\ roster = <<>>
  /\ asg_task = 0
  /\ asg_strategy = ""
  /\ asg_result = 0
  /\ asg_parts = <<>>
  /\ db = 0
  /\ engine_stats = 0
  /\ agents = 0

\* _classify_hybrid once both classifiers have answered
HybridCombines ==
  /\ combined.by = "none"
  /\ combined' = [by     |-> "hybrid",
                  result |-> HybridOf(sub_results.llm, sub_results.rule, clock).result]
  /\ UNCHANGED <<sub_results, rb_vars, cls_vars, asg_vars, db_vars>>

\* _classify_ensemble once both classifiers have answered
EnsembleCombines ==
  /\ combined.by = "none"
  /\ combined' =
       [by     |-> "ensemble",
        result |-> EnsembleOf(EnsembleResults(sub_results.llm, sub_results.rule),
                              clock).result]
  /\ UNCHANGED <<sub_results, rb_vars, cls_vars, asg_vars, db_vars>>

NextCombine == HybridCombines \/ EnsembleCombines

SpecCombine == InitCombine /\ [][NextCombine]_vars

\* the two results agree on category and on priority
SubResultsAgree ==
  /\ sub_results.llm.category = sub_results.rule.category
  /\ sub_results.llm.priority = sub_results.rule.priority

\* C16: the hybrid combiner returns the LLM's category and priority, with
\* confidence min(llm*0.7 + rule*0.3 + 0.2, 1.0) when the two results agree
\* on category and on priority and llm*0.8 when they differ on either; for
\* confidences in [0, 1] the hybrid confidence is in [0, 1].
C16_HybridCombinerConfidence ==
  (combined.by = "hybrid" /\ sub_results.llm.status = "ok") =>
    /\ combined.result.status = "ok"
    /\ combined.result.category = sub_results.llm.category
    /\ combined.result.priority = sub_results.llm.priority
    /\ SubResultsAgree =>
         combined.result.confidence =
           RMin(RAdd(RAdd(RMul(sub_results.llm.confidence, <<7, 10>>),
                          RMul(sub_results.rule.confidence, <<3, 10>>)), <<1, 5>>), One)
    /\ ~SubResultsAgree =>
         combined.result.confidence = RMul(sub_results.llm.confidence, <<4, 5>>)
    /\ RLe(Zero, combined.result.confidence) /\ RLe(combined.result.confidence, One)

\* the two results agree and the sum 0.63 + 0.3 + 0.2 is capped at 1.0
C16_Witness ==
  /\ combined.by = "hybrid"
  /\ sub_results.llm.status = "ok"
  /\ SubResultsAgree
  /\ sub_results.llm.confidence = <<9, 10>>
  /\ sub_results.rule.confidence = One
  /\ combined.result.confidence = One

\* the classifiers that did not raise
Survivors == {name \in {"llm", "rule"} : sub_results[name].status = "ok"}

\* the sum of the confidences of the surviving classifiers that proposed the
\* value for the field
ConfidenceFor(field, value) ==
  RAdd(IF "llm" \in Survivors /\ sub_results.llm[field] = value
       THEN sub_results.llm.confidence ELSE Zero,
       IF "rule" \in Survivors /\ sub_results.rule[field] = value
       THEN sub_results.rule.confidence ELSE Zero)

\* the value chosen for the field was proposed, and no proposed value has a
\* larger sum of confidences
LargestSum(field) ==
  /\ \E name \in Survivors : sub_results[name][field] = combined.result[field]
  /\ \A name \in Survivors :
       RLe(ConfidenceFor(field, sub_results[name][field]),
           ConfidenceFor(field, combined.result[field]))

\* C20: ensemble classification skips a classifier that raises and raises
\* ClassificationError only if all fail; the category and, independently,
\* the priority chosen have the largest sum of the confidences of the
\* survivors that proposed them; the result is labelled "ensemble" and its
\* confidence is the sum of the survivors' confidences divided by their
\* number, capped at 1.0.
C20_EnsembleVotesByConfidence ==
  combined.by = "ensemble" =>
    /\ combined.result.status = "ClassificationError" <=> Survivors = {}
    /\ Survivors # {} =>
         /\ combined.result.status = "ok"
         /\ combined.result.strategy_used = "ensemble"
         /\ LargestSum("category")
         /\ LargestSum("priority")
         /\ combined.result.confidence =
              RMin(RDivInt(ConfidenceFor("status", "ok"), Cardinality(Survivors)), One)

\* both classifiers answered, they disagree on both axes, and the one with
\* the larger confidence decides
C20_Witness ==
  /\ combined.by = "ensemble"
  /\ Survivors = {"llm", "rule"}
  /\ sub_results.llm.category # sub_results.rule.category
  /\ sub_results.llm.priority # sub_results.rule.priority
  /\ sub_results.llm.confidence = <<2, 5>>
  /\ sub_results.rule.confidence = <<9, 10>>
  /\ combined.result.category = sub_results.rule.category
  /\ combined.result.confidence = <<13, 20>>

----------------------------------------------------------------------------
(* EnhancedAssignmentEngine, src/src/core/assignment.py.                   *)

\* TaskPriority values as Python strings
PriorityValue ==
  [critical |-> <<"c", "r", "i", "t", "i", "c", "a", "l">>,
   high     |-> <<"h", "i", "g", "h">>,
   medium   |-> <<"m", "e", "d", "i", "u", "m">>,
   low      |-> <<"l", "o", "w">>]

\* lines 69-74
priority_weights ==
  [critical |-> <<3, 1>>, high |-> <<2, 1>>, medium |-> One, low |-> <<1, 2>>]

\* task_data["priority"]: a TaskPriority member, a str, or no such key
PriorityMember(member) == [kind |-> "enum", value |-> member]

PriorityStr(s) == [kind |-> "str", value |-> s]

PriorityAbsent == [kind |-> "absent", value |-> <<>>]

\* lines 244-252 and 345-353: the TaskPriority the weight is looked up under
TaskPriorityOf(priority_field) ==
  LET priority_str ==
        CASE priority_field.kind = "absent" -> PriorityStr(Title(<<"M", "e", "d", "i", "u", "m">>))
          [] priority_field.kind = "str" -> PriorityStr(Title(priority_field.value))
          [] OTHER -> priority_field
  IN  IF priority_str.kind = "enum" THEN priority_str.value
      ELSE IF \E p \in TaskPriority : PriorityValue[p] = priority_str.value
      THEN CHOOSE p \in TaskPriority : PriorityValue[p] = priority_str.value
      ELSE "medium"

\* lines 141-152 of _get_available_teams: one teams_data entry
TeamData(id, name, skills, capacity, current_load, priority_weight, is_active) ==
  [id              |-> id,
   name            |-> name,
   skills          |-> skills,
   capacity        |-> capacity,
   current_load    |-> current_load,
   availability    |-> IF capacity - current_load > 0 THEN capacity - current_load ELSE 0,
   priority_weight |-> priority_weight,
   is_active       |-> is_active]

\* t["is_active"] alone
ActiveOnly(team) == team.is_active

\* t["is_active"] and t["availability"] > 0
\* a variant that forgets the availability of the team
AvailableWhenActive(team) == team.is_active

Available(team) == team.is_active /\ team.availability > 0

\* indexes of the teams the strategies score
AvailableIndexes(teams_data) ==
  {i \in 1..Len(teams_data) : Available(teams_data[i])}

AssignmentResult(assigned_team_id, confidence, strategy_used, team_scores) ==
  [status           |-> "ok",
   assigned_team_id |-> assigned_team_id,
   confidence       |-> confidence,
   strategy_used    |-> strategy_used,
   team_scores      |-> team_scores]

\* a strategy that raised: no result object exists
AssignRaised(error) ==
  [status           |-> error,
   assigned_team_id |-> 0,
   confidence       |-> Zero,
   strategy_used    |-> "",
   team_scores      |-> <<>>]

NoAssignment == AssignRaised("none")

\* the same loops with best_score = 1.0 at the start
FirstBestAboveOne(scores, candidates) ==
  IF \A i \in candidates : RLe(scores[i], One) THEN 0
  ELSE CHOOSE i \in candidates :
         /\ \A j \in candidates : RLe(scores[j], scores[i])
         /\ \A j \in candidates : j < i => RLt(scores[j], scores[i])

\* the loops "if total_score > best_score" with best_score = 0.0 at the
\* start: the index of the first candidate whose score no candidate exceeds,
\* or 0 (best_team stays None) when no score is above 0.0
FirstBest(scores, candidates) ==
  IF \A i \in candidates : RLe(scores[i], Zero) THEN 0
  ELSE CHOOSE i \in candidates :
         /\ \A j \in candidates : RLe(scores[j], scores[i])
         /\ \A j \in candidates : j < i => RLt(scores[j], scores[i])

\* availability / capacity
AvailabilityRatio(team) == Rat(team.availability, team.capacity)

\* lines 183-202: skill_score of one team
SkillScore(team, text, category) ==
  LET team_skills == [k \in 1..Len(team.skills) |-> Lower(team.skills[k])] \o <<>>
      relevant_skills == category_skills[category]
      direct == Cardinality({k \in 1..Len(team_skills) : Contains(team_skills[k], text)})
      relevant ==
        Cardinality({k \in 1..Len(relevant_skills) :
                       /\ Contains(Lower(relevant_skills[k]), text)
                       /\ \E j \in 1..Len(team_skills) :
                            team_skills[j] = Lower(relevant_skills[k])})
      skill_score == RAdd(RInt(2 * direct), Rat(3 * relevant, 2))
  IN  IF Len(team_skills) > 0 THEN RDivInt(skill_score, Len(team_skills))
      ELSE skill_score

\* lines 204-208: total_score of one team
SkillTotal(team, text, category) ==
  RAdd(RAdd(RMul(SkillScore(team, text, category), <<3, 5>>),
            RMul(AvailabilityRatio(team), <<3, 10>>)),
       RMul(team.priority_weight, <<1, 10>>))

\* team_scores as a dict keyed by team name
ScoresByName(teams_data, indexes, scores) ==
  [name \in {teams_data[i].name : i \in indexes} |->
     scores[CHOOSE i \in indexes : teams_data[i].name = name]] @@ <<>>

\* _assign_skill_based, lines 162-239
assign_skill_based(task_data, teams_data) ==
  LET text == Join2(Lower(task_data.title), Lower(task_data.description))
      candidates == AvailableIndexes(teams_data)
      scores == [i \in 1..Len(teams_data) |->
                   IF i \in candidates
                   THEN SkillTotal(teams_data[i], text, task_data.category)
                   ELSE Zero] \o <<>>
      best_team == FirstBest(scores, candidates)
  IN  IF best_team = 0 THEN AssignRaised("AssignmentError")
      ELSE AssignmentResult(teams_data[best_team].id, RMin(scores[best_team], One),
                            "skill_based",
                            ScoresByName(teams_data, 1..Len(teams_data), scores))

\* a score that falls as the team's availability rises
WorkloadTotalInverted(team, priority_weight) ==
  RAdd(RSub(One, AvailabilityRatio(team)),
       RMul(RMul(team.priority_weight, priority_weight), <<3, 10>>))

\* lines 267-278: total_score of one team
WorkloadTotal(team, priority_weight) ==
  LET availability_ratio == AvailabilityRatio(team)
      adjusted_priority_weight == RMul(team.priority_weight, priority_weight)
      load_ratio == IF team.capacity > 0 THEN Rat(team.current_load, team.capacity)
                    ELSE One
      efficiency_factor == RSub(One, load_ratio)
  IN  RAdd(RAdd(RMul(availability_ratio, <<1, 2>>),
                RMul(adjusted_priority_weight, <<3, 10>>)),
           RMul(efficiency_factor, <<1, 5>>))

\* the outcome of a scoring loop over the available teams
ScoredResult(teams_data, candidates, scores, confidence, strategy_used) ==
  LET best_team == FirstBest(scores, candidates)
  IN  IF candidates = {} THEN AssignRaised("AssignmentError")
      ELSE IF best_team = 0 THEN AssignRaised("TypeError")
      ELSE AssignmentResult(teams_data[best_team].id, confidence, strategy_used,
                            ScoresByName(teams_data, candidates, scores))

\* _assign_workload_based, lines 241-303
assign_workload_based(task_data, teams_data) ==
  LET priority_weight == priority_weights[TaskPriorityOf(task_data.priority)]
      candidates == AvailableIndexes(teams_data)
      scores == [i \in 1..Len(teams_data) |->
                   IF i \in candidates THEN WorkloadTotal(teams_data[i], priority_weight)
                   ELSE Zero] \o <<>>
  IN  ScoredResult(teams_data, candidates, scores, <<9, 10>>, "workload_based")

\* the available team that sorts last: the last of those with the largest load
LastByLoad(teams_data, candidates) ==
  CHOOSE i \in candidates :
    \A j \in candidates :
      \/ teams_data[j].current_load < teams_data[i].current_load
      \/ teams_data[j].current_load = teams_data[i].current_load /\ j <= i

\* lines 315-318: available_teams.sort(key=current_load)[0], the sort being
\* stable: the first of the available teams with the least load
FirstByLoad(teams_data, candidates) ==
  CHOOSE i \in candidates :
    \A j \in candidates :
      \/ teams_data[i].current_load < teams_data[j].current_load
      \/ teams_data[i].current_load = teams_data[j].current_load /\ i <= j

\* _assign_round_robin, lines 305-341
assign_round_robin(task_data, teams_data) ==
  LET candidates == AvailableIndexes(teams_data)
      scores == [i \in 1..Len(teams_data) |->
                   Rat(1, teams_data[i].current_load + 1)] \o <<>>
  IN  IF candidates = {} THEN AssignRaised("AssignmentError")
      ELSE AssignmentResult(teams_data[FirstByLoad(teams_data, candidates)].id,
                            <<4, 5>>, "round_robin",
                            ScoresByName(teams_data, candidates, scores))

\* lines 368-376: total_score of one team
PriorityTotal(team, priority_multiplier) ==
  RAdd(RMul(RMul(team.priority_weight, priority_multiplier), <<7, 10>>),
       RMul(AvailabilityRatio(team), <<3, 10>>))

\* _assign_priority_based, lines 343-401
assign_priority_based(task_data, teams_data) ==
  LET priority_multiplier == priority_weights[TaskPriorityOf(task_data.priority)]
      candidates == AvailableIndexes(teams_data)
      scores == [i \in 1..Len(teams_data) |->
                   IF i \in candidates
                   THEN PriorityTotal(teams_data[i], priority_multiplier)
                   ELSE Zero] \o <<>>
  IN  ScoredResult(teams_data, candidates, scores, <<17, 20>>, "priority_based")

\* weights under which the skill-based strategy outvotes the two others
strategy_weights_skill_first ==
  [skill_based |-> <<3, 5>>, workload_based |-> <<1, 5>>, priority_based |-> <<1, 5>>]

\* lines 432-436
strategy_weights ==
  [skill_based |-> <<2, 5>>, workload_based |-> <<3, 10>>, priority_based |-> <<3, 10>>]

\* lines 407-422: the strategies tried, in order, each with what it
\* returned or raised
HybridTried(task_data, teams_data) ==
  <<[strategy |-> "skill_based",
     result   |-> assign_skill_based(task_data, teams_data)],
    [strategy |-> "workload_based",
     result   |-> assign_workload_based(task_data, teams_data)],
    [strategy |-> "priority_based",
     result   |-> assign_priority_based(task_data, teams_data)]>>

\* the pairs all kept, those of the strategies that raised included
AllTried(tried) == tried

\* lines 423-425: results.append((strategy, result)) unless the strategy raised
Surviving(tried) == SelectSeq(tried, LAMBDA pair : pair.result.status = "ok")

\* lines 413-425: the (strategy, result) pairs of the strategies that did
\* not raise, in the order tried
HybridResults(task_data, teams_data) == Surviving(HybridTried(task_data, teams_data))

\* lines 438-444: team_votes[team_id]["score"]
TeamVotes(results) ==
  [team_id \in {results[i].result.assigned_team_id : i \in 1..Len(results)} |->
     RSumSeq([i \in 1..Len(results) |->
                IF results[i].result.assigned_team_id = team_id
                THEN RMul(strategy_weights[results[i].strategy],
                          results[i].result.confidence)
                ELSE Zero] \o <<>>)] @@ <<>>

\* the last, in order of insertion, of the team ids with the largest vote
LastVoted(results) ==
  LET team_votes == TeamVotes(results)
      first(team_id) == CHOOSE i \in 1..Len(results) :
                          /\ results[i].result.assigned_team_id = team_id
                          /\ \A j \in 1..(i - 1) :
                               results[j].result.assigned_team_id # team_id
  IN  CHOOSE team_id \in DOMAIN team_votes :
        \A other \in DOMAIN team_votes :
          \/ RLt(team_votes[other], team_votes[team_id])
          \/ team_votes[other] = team_votes[team_id] /\ first(other) <= first(team_id)

\* line 455: max(team_votes.items(), key=score)[0], the first, in order of
\* insertion, of the team ids with the largest vote
BestVoted(results) ==
  LET team_votes == TeamVotes(results)
      first(team_id) == CHOOSE i \in 1..Len(results) :
                          /\ results[i].result.assigned_team_id = team_id
                          /\ \A j \in 1..(i - 1) :
                               results[j].result.assigned_team_id # team_id
  IN  CHOOSE team_id \in DOMAIN team_votes :
        \A other \in DOMAIN team_votes :
          \/ RLt(team_votes[other], team_votes[team_id])
          \/ team_votes[other] = team_votes[team_id] /\ first(team_id) <= first(other)

\* the mean boosted whether or not the strategies agree
HybridConfidenceBoosted(results) ==
  LET confidences == [i \in 1..Len(results) |-> results[i].result.confidence] \o <<>>
  IN  RMin(RMul(RDivInt(RSumSeq(confidences), Len(results)), <<6, 5>>), One)

\* lines 458-464: hybrid_confidence
HybridConfidence(results) ==
  LET confidences == [i \in 1..Len(results) |-> results[i].result.confidence] \o <<>>
      total_confidence == RSumSeq(confidences)
      hybrid_confidence == RDivInt(total_confidence, Len(results))
      chosen == {results[i].result.assigned_team_id : i \in 1..Len(results)}
  IN  IF Cardinality(chosen) = 1
      THEN RMin(RMul(hybrid_confidence, <<6, 5>>), One)
      ELSE hybrid_confidence

\* lines 427-483: the vote over the results of the strategies that did not
\* raise; team_scores is keyed by team id
HybridVote(results) ==
  IF results = <<>> THEN AssignRaised("AssignmentError")
  ELSE AssignmentResult(BestVoted(results), HybridConfidence(results), "hybrid",
                        TeamVotes(results))

\* _assign_hybrid, lines 403-483
assign_hybrid(task_data, teams_data) == HybridVote(HybridResults(task_data, teams_data))

----------------------------------------------------------------------------
(* Rosters and tasks handed to the assignment strategies.                  *)

\* Team.id and Team.name of the team at a roster position: the ids are
\* distinct (primary key), the names are distinct (unique column)
TeamIdAt(i) == 100 - i

TeamNameAt(i) == <<"Team", i>>

DatabaseSkill == <<"D", "a", "t", "a", "b", "a", "s", "e">>

\* <<capacity, current_load>> of the generated teams
TeamLoads == {<<2, 0>>, <<2, 1>>, <<4, 2>>, <<1, 1>>, <<1, 2>>}

\* the generated teams but for id and name:
\* <<capacity, current_load, priority_weight, is_active, skills>>
TeamKinds ==
  {<<load[1], load[2], One, TRUE, <<>>>> : load \in TeamLoads}
    \cup {<<load[1], load[2], <<2, 1>>, TRUE, <<>>>> :
            load \in {<<2, 1>>, <<4, 2>>, <<1, 1>>}}
    \cup {<<load[1], load[2], One, TRUE, <<DatabaseSkill>>>> :
            load \in {<<2, 0>>, <<2, 1>>}}
    \cup {<<2, 0, One, FALSE, <<>>>>}

TeamOfKind(i, kind) ==
  TeamData(TeamIdAt(i), TeamNameAt(i), kind[5], kind[1], kind[2], kind[3], kind[4])

\* the rosters of exactly n generated teams
RECURSIVE RostersOf(_)
RostersOf(n) ==
  IF n = 0 THEN {<<>>}
  ELSE {Append(teams, TeamOfKind(n, kind)) : teams \in RostersOf(n - 1), kind \in TeamKinds}

\* scenario C: TeamA (capacity 10, load 9) and TeamB (capacity 10, load 2)
ScenarioCRoster ==
  <<TeamData(TeamIdAt(1), <<"TeamA">>, <<>>, 10, 9, One, TRUE),
    TeamData(TeamIdAt(2), <<"TeamB">>, <<>>, 10, 2, One, TRUE)>>

\* skills of which the title "Database down" names the first only, and which
\* is no skill of a category
DownSkills ==
  <<<<"D", "o", "w", "n">>, <<"C", "l", "o", "u", "d">>, <<"M", "o", "b", "i", "l", "e">>>>

\* three teams of which, for a task of medium priority titled "Database
\* down", the third has the best skill score (0.675), the first the best
\* workload score and the second the best priority score
TieRoster ==
  <<TeamOfKind(1, <<10, 0, One, TRUE, <<>>>>),
    TeamOfKind(2, <<7, 5, <<2, 1>>, TRUE, <<>>>>),
    TeamOfKind(3, <<12, 9, <<2, 1>>, TRUE, DownSkills>>)>>

Rosters ==
  UNION {RostersOf(n) : n \in 0..MaxTeams}
    \cup {ScenarioCRoster, TieRoster}

TaskData(category, priority, title, description) ==
  [category |-> category, priority |-> priority, title |-> title,
   description |-> description]

DatabaseTitle == <<"D", "a", "t", "a", "b", "a", "s", "e", " ", "d", "o", "w", "n">>

DatabaseDescription == <<"F", "i", "x", " ", "t", "h", "e", " ", "d", "a", "t", "a", "b", "a", "s", "e">>

PlainTitle == <<"H", "e", "l", "l", "o">>

PlainDescription == <<"w", "o", "r", "l", "d">>

Tasks ==
  {TaskData("IT", PriorityMember("critical"), DatabaseTitle, DatabaseDescription),
   TaskData("IT", PriorityStr(<<"C", "r", "i", "t", "i", "c", "a", "l">>), PlainTitle, PlainDescription),
   TaskData("HR", PriorityMember("low"), DatabaseTitle, DatabaseDescription),
   TaskData("IT", PriorityAbsent, DatabaseTitle, PlainDescription),
   TaskData("Operations", PriorityMember("high"), PlainTitle, PlainDescription),
   TaskData("HR", PriorityStr(<<"l", "o", "w">>), PlainTitle, PlainDescription)}

----------------------------------------------------------------------------
(* One call of an assignment strategy on a roster.                         *)

InitAssign ==
  /\ roster \in Rosters
  /\ asg_task \in Tasks
  /\ asg_strategy = "none"
  /\ asg_result = NoAssignment
  /\ asg_parts = <<>>
  /\ rb_text = <<>>
  /\ rb_title = <<>>
  /\ rb_result = NoResult
  /\ clock = 0
  /\ cls_call = 0
  /\ cls_result = NoResult
  /\ cls_trace = <<>>
  /\ first_rule = 0
  /\ accuracy_stats = 0
  /\ returned = 0
  /\ db = 0
  /\ engine_stats = 0
  /\ agents = 0
  /\ sub_results = 0
  /\ combined = 0

\* the call has returned or raised
Assigned(strategy, result, parts) ==
  /\ asg_result.status = "none"
  /\ asg_strategy' = strategy
  /\ asg_result' = result
  /\ asg_parts' = parts
  /\ UNCHANGED <<roster, asg_task, rb_vars, cls_vars, db_vars, comb_vars>>

AssignSkillBased ==
  Assigned("skill_based", assign_skill_based(asg_task, roster), <<>>)

AssignWorkloadBased ==
  Assigned("workload_based", assign_workload_based(asg_task, roster), <<>>)

AssignRoundRobin ==
  Assigned("round_robin", assign_round_robin(asg_task, roster), <<>>)

AssignPriorityBased ==
  Assigned("priority_based", assign_priority_based(asg_task, roster), <<>>)

AssignHybrid ==
  Assigned("hybrid", assign_hybrid(asg_task, roster), HybridResults(asg_task, roster))

NextAssign ==
  \/ AssignSkillBased
  \/ AssignWorkloadBased
  \/ AssignRoundRobin
  \/ AssignPriorityBased
  \/ AssignHybrid

SpecAssign == InitAssign /\ [][NextAssign]_vars

\* the task's priority is Critical, as a str or as a TaskPriority member
CriticalTask ==
  \/ asg_task.priority.kind = "str" /\ asg_task.priority.value = <<"C", "r", "i", "t", "i", "c", "a", "l">>
  \/ asg_task.priority.kind = "enum" /\ asg_task.priority.value = "critical"

\* roster positions of the teams that are active and have availability > 0
OpenTeams == {i \in 1..Len(roster) : roster[i].is_active /\ roster[i].availability > 0}

\* C4: workload-based assignment, on a roster whose active teams with
\* availability > 0 all have the same priority_weight, selects a team whose
\* availability / capacity is the largest among those teams, whatever the
\* task priority; for a Critical task with TeamA (10, 9, 1.0) and TeamB
\* (10, 2, 1.0) it selects TeamB.
C4_WorkloadPicksMostAvailable ==
  (/\ asg_strategy = "workload_based"
   /\ OpenTeams # {}
   /\ \A i, j \in OpenTeams : roster[i].priority_weight = roster[j].priority_weight) =>
    /\ asg_result.status = "ok"
    /\ \E i \in OpenTeams :
         /\ roster[i].id = asg_result.assigned_team_id
         /\ \A j \in OpenTeams :
              roster[j].availability * roster[i].capacity
                <= roster[i].availability * roster[j].capacity
    /\ (roster = ScenarioCRoster /\ CriticalTask) =>
         asg_result.assigned_team_id = ScenarioCRoster[2].id

\* the Critical task of scenario C went to TeamB
C4_Witness ==
  /\ asg_strategy = "workload_based"
  /\ roster = ScenarioCRoster
  /\ CriticalTask
  /\ asg_task.priority.kind = "str"
  /\ asg_result.status = "ok"
  /\ asg_result.assigned_team_id = ScenarioCRoster[2].id

\* C7: on a roster with at least one team that is active and has
\* availability > 0, for a task carrying a category, each strategy returns a
\* result instead of raising, and the assigned_team_id is the id of a team of
\* the roster.
C7_StrategyReturnsRosterTeam ==
  (asg_result.status # "none" /\ OpenTeams # {} /\ asg_task.category \in TaskCategory) =>
    /\ asg_result.status = "ok"
    /\ \E i \in 1..Len(roster) : roster[i].id = asg_result.assigned_team_id

\* hybrid returned the only open team of a roster that begins with a closed one
C7_Witness ==
  /\ asg_strategy = "hybrid"
  /\ Len(roster) = 2
  /\ OpenTeams = {2}
  /\ asg_result.status = "ok"
  /\ asg_result.assigned_team_id = roster[2].id

\* C8: a result with a non-null assigned_team_id names a roster team that is
\* active and has availability > 0; an inactive team or a team with
\* availability 0 is never selected.
C8_AssignedTeamIsOpen ==
  (asg_result.status = "ok" /\ asg_result.assigned_team_id # 0) =>
    \E i \in OpenTeams : roster[i].id = asg_result.assigned_team_id

\* priority-based passed over a full team of higher priority_weight
C8_Witness ==
  /\ asg_strategy = "priority_based"
  /\ Len(roster) = 2
  /\ roster[1].is_active
  /\ roster[1].availability = 0
  /\ roster[1].priority_weight = <<2, 1>>
  /\ roster[2].priority_weight = One
  /\ asg_result.status = "ok"
  /\ asg_result.assigned_team_id = roster[2].id

\* C9: round-robin selects, among the active teams with availability > 0, a
\* team of least current_load, the first in roster order when several share
\* it; its confidence is 0.8 and the score reported for each of those teams
\* is 1 / (current_load + 1).
C9_RoundRobinLeastLoadedFirst ==
  (asg_strategy = "round_robin" /\ OpenTeams # {}) =>
    /\ asg_result.status = "ok"
    /\ \E i \in OpenTeams :
         /\ roster[i].id = asg_result.assigned_team_id
         /\ \A j \in OpenTeams :
              /\ roster[i].current_load <= roster[j].current_load
              /\ j < i => roster[i].current_load < roster[j].current_load
    /\ asg_result.confidence = <<4, 5>>
    /\ DOMAIN asg_result.team_scores = {roster[i].name : i \in OpenTeams}
    /\ \A i \in OpenTeams :
         asg_result.team_scores[roster[i].name] = <<1, roster[i].current_load + 1>>

\* two open teams carried the same load and the first one was selected
C9_Witness ==
  /\ asg_strategy = "round_robin"
  /\ OpenTeams = {1, 2}
  /\ roster[1].current_load = roster[2].current_load
  /\ roster[1].current_load > 0
  /\ asg_result.status = "ok"
  /\ asg_result.assigned_team_id = roster[1].id

\* mean of the confidences of the strategies of the last hybrid call that
\* did not raise
PartsMean ==
  RDivInt(RSumSeq([i \in 1..Len(asg_parts) |-> asg_parts[i].result.confidence] \o <<>>),
          Len(asg_parts))

\* those strategies all chose the same team
PartsAgree ==
  \A i, j \in 1..Len(asg_parts) :
    asg_parts[i].result.assigned_team_id = asg_parts[j].result.assigned_team_id

\* C10: the hybrid confidence is the mean of the confidences of the
\* strategies that did not raise, multiplied by 1.2 and capped at 1.0 exactly
\* when they all chose the same team: it is >= the mean when they agree,
\* equal to it when they disagree, and always within [0, 1].
C10_HybridConfidence ==
  (asg_strategy = "hybrid" /\ asg_result.status = "ok") =>
    /\ asg_parts # <<>>
    /\ asg_result.confidence =
         IF PartsAgree THEN RMin(RMul(PartsMean, <<6, 5>>), One) ELSE PartsMean
    /\ PartsAgree => RLe(PartsMean, asg_result.confidence)
    /\ ~PartsAgree => asg_result.confidence = PartsMean
    /\ RLe(Zero, asg_result.confidence)
    /\ RLe(asg_result.confidence, One)

\* three strategies voted, not all for the same team
C10_Witness ==
  /\ asg_strategy = "hybrid"
  /\ asg_result.status = "ok"
  /\ Len(asg_parts) = 3
  /\ ~PartsAgree
  /\ asg_result.confidence = PartsMean

\* the weight the priority table gives the priority a string names in any
\* letter case: Critical 3.0, High 2.0, Medium 1.0, Low 0.5, and 1.0 for a
\* string that names none of them
NamedWeight(priority_str) ==
  IF \E p \in TaskPriority : PriorityValue[p] = Lower(priority_str)
  THEN priority_weights[CHOOSE p \in TaskPriority : PriorityValue[p] = Lower(priority_str)]
  ELSE One

\* C17: in the workload-based and priority-based strategies a task priority
\* given as the string Critical, High, Medium or Low, in any letter case,
\* counts with the weight 3.0, 2.0, 1.0 or 0.5: the scores of the teams are
\* the ones that weight gives.
C17_StringPriorityWeight ==
  (asg_result.status = "ok" /\ asg_task.priority.kind = "str") =>
    /\ asg_strategy = "workload_based" =>
         \A i \in OpenTeams :
           asg_result.team_scores[roster[i].name]
             = WorkloadTotal(roster[i], NamedWeight(asg_task.priority.value))
    /\ asg_strategy = "priority_based" =>
         \A i \in OpenTeams :
           asg_result.team_scores[roster[i].name]
             = PriorityTotal(roster[i], NamedWeight(asg_task.priority.value))

\* the vote a team has from the strategies of the last hybrid call that did
\* not raise: base weight (skill 0.4, workload 0.3, priority 0.3) times confidence
VoteOf(team_id) ==
  RSumSeq([i \in 1..Len(asg_parts) |->
             IF asg_parts[i].result.assigned_team_id # team_id THEN Zero
             ELSE RMul(CASE asg_parts[i].strategy = "skill_based" -> <<2, 5>>
                         [] asg_parts[i].strategy = "workload_based" -> <<3, 10>>
                         [] asg_parts[i].strategy = "priority_based" -> <<3, 10>>,
                       asg_parts[i].result.confidence)] \o <<>>)

\* the teams those strategies chose
VotedTeams == {asg_parts[i].result.assigned_team_id : i \in 1..Len(asg_parts)}

\* the position, in the order skill, workload, priority, of the first vote of a team
FirstVoteOf(team_id) ==
  CHOOSE i \in 1..Len(asg_parts) :
    /\ asg_parts[i].result.assigned_team_id = team_id
    /\ \A j \in 1..(i - 1) : asg_parts[j].result.assigned_team_id # team_id

\* C18: in hybrid assignment each surviving strategy adds base weight times
\* confidence to the vote of the team it chose, round-robin never votes, the
\* returned team has a vote no other team exceeds, and among teams of equal
\* vote the one voted for first in the order skill, workload, priority wins.
C18_HybridWeightedVote ==
  (asg_strategy = "hybrid" /\ asg_result.status = "ok") =>
    /\ \A i \in 1..Len(asg_parts) :
         /\ asg_parts[i].strategy \in {"skill_based", "workload_based", "priority_based"}
         /\ asg_parts[i].result.strategy_used = asg_parts[i].strategy
    /\ DOMAIN asg_result.team_scores = VotedTeams
    /\ \A team_id \in VotedTeams : asg_result.team_scores[team_id] = VoteOf(team_id)
    /\ asg_result.assigned_team_id \in VotedTeams
    /\ \A team_id \in VotedTeams :
         /\ RLe(VoteOf(team_id), VoteOf(asg_result.assigned_team_id))
         /\ VoteOf(team_id) = VoteOf(asg_result.assigned_team_id) =>
              FirstVoteOf(asg_result.assigned_team_id) <= FirstVoteOf(team_id)

\* the team of the skill-based vote and the team of the workload-based vote
\* both have the vote 0.27, and the former is returned
C18_Witness ==
  /\ asg_strategy = "hybrid"
  /\ asg_result.status = "ok"
  /\ Cardinality(VotedTeams) = 3
  /\ \E team_id \in VotedTeams :
       /\ team_id # asg_result.assigned_team_id
       /\ VoteOf(team_id) = VoteOf(asg_result.assigned_team_id)
  /\ asg_parts[1].result.assigned_team_id = asg_result.assigned_team_id

----------------------------------------------------------------------------
(* The vote of _assign_hybrid applied to what its three strategies         *)
(* returned or raised.                                                     *)

\* ids of the teams the strategies choose among
VoteTeams == {TeamIdAt(1), TeamIdAt(2), TeamIdAt(3)}

\* min(best_score, 1.0) of _assign_skill_based
SkillConfidences == {<<1, 4>>, <<27, 40>>, One}

\* what a strategy hands back: a result, or it raises an AssignmentError or
\* another exception
Outcomes(strategy, confidences) ==
  {AssignmentResult(team_id, confidence, strategy, <<>>) :
     team_id \in VoteTeams, confidence \in confidences}
    \cup {AssignRaised("AssignmentError"), AssignRaised("TypeError")}

TriedOutcomes ==
  {<<[strategy |-> "skill_based", result |-> skill],
     [strategy |-> "workload_based", result |-> workload],
     [strategy |-> "priority_based", result |-> priority]>> :
     skill \in Outcomes("skill_based", SkillConfidences),
     workload \in Outcomes("workload_based", {<<9, 10>>}),
     priority \in Outcomes("priority_based", {<<17, 20>>})}

InitVote ==
  /\ sub_results \in TriedOutcomes
  /\ combined = 0
  /\ roster = <<>>
  /\ asg_task = 0
  /\ asg_strategy = "none"
  /\ asg_result = NoAssignment
  /\ asg_parts = <<>>
  /\ rb_text = <<>>
  /\ rb_title = <<>>
  /\ rb_result = NoResult
  /\ clock = 0
  /\ cls_call = 0
  /\ cls_result = NoResult
  /\ cls_trace = <<>>
  /\ first_rule = 0
  /\ accuracy_stats = 0
  /\ returned = 0
  /\ db = 0
  /\ engine_stats = 0
  /\ agents = 0

\* _assign_hybrid once its three strategies have returned or raised
HybridVotes ==
  /\ asg_result.status = "none"
  /\ asg_strategy' = "hybrid"
  /\ asg_parts' = Surviving(sub_results)
  /\ asg_result' = HybridVote(Surviving(sub_results))
  /\ UNCHANGED <<roster, asg_task, rb_vars, cls_vars, db_vars, comb_vars>>

NextVote == HybridVotes

SpecVote == InitVote /\ [][NextVote]_vars

\* positions of the strategies that did not raise
NotRaised == {i \in 1..3 : sub_results[i].result.status = "ok"}

\* the vote of a team from the strategies that did not raise
VoteOfNotRaised(team_id) ==
  RSumSeq([i \in 1..3 |->
             IF i \in NotRaised /\ sub_results[i].result.assigned_team_id = team_id
             THEN RMul(IF i = 1 THEN <<2, 5>> ELSE <<3, 10>>,
                       sub_results[i].result.confidence)
             ELSE Zero] \o <<>>)

\* the mean of the confidences of the strategies that did not raise
MeanOfNotRaised ==
  RDivInt(RSumSeq([i \in 1..3 |->
                     IF i \in NotRaised THEN sub_results[i].result.confidence
                     ELSE Zero] \o <<>>),
          Cardinality(NotRaised))

\* C19: in hybrid assignment a sub-strategy that raises contributes no vote
\* and no confidence while the others still decide the outcome, and the
\* call fails, with AssignmentError, if and only if all three raised.
C19_RaisingStrategiesExcluded ==
  (asg_strategy = "hybrid" /\ asg_result.status # "none") =>
    /\ asg_result.status \in {"ok", "AssignmentError"}
    /\ asg_result.status = "AssignmentError" <=> NotRaised = {}
    /\ asg_result.status = "ok" =>
         /\ DOMAIN asg_result.team_scores
              = {sub_results[i].result.assigned_team_id : i \in NotRaised}
         /\ \A team_id \in DOMAIN asg_result.team_scores :
              /\ asg_result.team_scores[team_id] = VoteOfNotRaised(team_id)
              /\ RLe(VoteOfNotRaised(team_id), VoteOfNotRaised(asg_result.assigned_team_id))
         /\ asg_result.assigned_team_id \in DOMAIN asg_result.team_scores
         /\ asg_result.confidence =
              IF Cardinality(DOMAIN asg_result.team_scores) = 1
              THEN RMin(RMul(MeanOfNotRaised, <<6, 5>>), One)
              ELSE MeanOfNotRaised

\* the skill-based strategy raised, the two others chose different teams,
\* and the team of the workload-based strategy was returned
C19_Witness ==
  /\ asg_strategy = "hybrid"
  /\ asg_result.status = "ok"
  /\ NotRaised = {2, 3}
  /\ sub_results[2].result.assigned_team_id # sub_results[3].result.assigned_team_id
  /\ asg_result.assigned_team_id = sub_results[2].result.assigned_team_id
  /\ asg_result.confidence = <<7, 8>>

\* the workload-based and the priority-based strategy both returned, and
\* chose the same team
WorkloadAndPriorityAgree ==
  /\ sub_results[2].result.status = "ok"
  /\ sub_results[3].result.status = "ok"
  /\ sub_results[2].result.assigned_team_id = sub_results[3].result.assigned_team_id

\* C29: in hybrid assignment, whenever the workload-based and the
\* priority-based strategy both succeed and choose the same team, that team
\* is the hybrid result, whichever team the skill-based strategy chooses and
\* whatever its confidence.
C29_WorkloadAndPriorityOutvoteSkill ==
  (asg_strategy = "hybrid" /\ asg_result.status # "none" /\ WorkloadAndPriorityAgree) =>
    /\ asg_result.status = "ok"
    /\ asg_result.assigned_team_id = sub_results[2].result.assigned_team_id

\* the skill-based strategy chose another team with confidence 1.0 and lost
C29_Witness ==
  /\ asg_strategy = "hybrid"
  /\ WorkloadAndPriorityAgree
  /\ sub_results[1].result.status = "ok"
  /\ sub_results[1].result.confidence = One
  /\ sub_results[1].result.assigned_team_id # sub_results[2].result.assigned_team_id
  /\ asg_result.assigned_team_id = sub_results[2].result.assigned_team_id
  /\ asg_result.team_scores[sub_results[1].result.assigned_team_id] = <<2, 5>>

----------------------------------------------------------------------------
(* The teams and tasks tables, src/src/database/models.py and              *)
(* src/src/database/operations.py.                                         *)

\* a row of the teams table
TeamRow(id, name, category, skills, capacity, current_load, priority_weight, is_active) ==
  [id              |-> id,
   name            |-> name,
   category        |-> category,
   skills          |-> skills,
   capacity        |-> capacity,
   current_load    |-> current_load,
   priority_weight |-> priority_weight,
   is_active       |-> is_active]

\* a row of the tasks table: assigned_team_id 0 stands for NULL
TaskRow(id, assigned_team_id, status) ==
  [id |-> id, assigned_team_id |-> assigned_team_id, status |-> status]

\* TeamOperations.get_teams_by_category
get_teams_by_category(database, category) ==
  SelectSeq(database.teams, LAMBDA team : team.category = category /\ team.is_active)

\* TeamOperations.get_team_workload
get_team_workload(database, team_id) ==
  Cardinality({i \in 1..Len(database.tasks) :
                 /\ database.tasks[i].assigned_team_id = team_id
                 /\ database.tasks[i].status \in {"pending", "in_progress"}})

\* lines 137-154 of _get_available_teams: the teams_data of the teams found
TeamsDataOf(database, teams) ==
  [i \in 1..Len(teams) |->
     TeamData(teams[i].id, teams[i].name, teams[i].skills, teams[i].capacity,
              get_team_workload(database, teams[i].id),
              teams[i].priority_weight, teams[i].is_active)] \o <<>>

\* _get_available_teams: TaskCategory(category) raises ValueError for a
\* string that is no category, and every exception becomes AssignmentError
get_available_teams(database, category) ==
  IF category \notin TaskCategory
  THEN [status |-> "AssignmentError", teams_data |-> <<>>]
  ELSE [status |-> "ok",
        teams_data |-> TeamsDataOf(database, get_teams_by_category(database, category))]

----------------------------------------------------------------------------
(* EnhancedAssignmentEngine.assign_task and its statistics.                *)

\* AssignmentStrategy
AssignmentStrategy ==
  {"skill_based", "workload_based", "round_robin", "priority_based", "hybrid"}

\* lines 77-84
InitialStats ==
  [total_assignments       |-> 0,
   successful_assignments  |-> 0,
   failed_assignments      |-> 0,
   assignments_by_strategy |-> <<>>,
   assignments_by_category |-> <<>>,
   average_confidence      |-> Zero]

\* lines 494-507: one more assignment counted under a key of a dict
CountedUnder(counts, key, success) ==
  (key :> [total      |-> (IF key \in DOMAIN counts THEN counts[key].total ELSE 0) + 1,
           successful |-> (IF key \in DOMAIN counts THEN counts[key].successful ELSE 0)
                            + (IF success THEN 1 ELSE 0)])
    @@ counts

\* lines 509-512
AverageWith(average_confidence, successful_assignments, confidence) ==
  RDivInt(RAdd(RMul(average_confidence, RInt(successful_assignments - 1)), confidence),
          successful_assignments)

\* the statistics with the failures left uncounted
update_stats_without_failures(stats, success, strategy, confidence, category) ==
  [stats EXCEPT
     !.total_assignments = @ + 1,
     !.successful_assignments = @ + (IF success THEN 1 ELSE 0),
     !.assignments_by_strategy = CountedUnder(@, strategy, success),
     !.assignments_by_category = CountedUnder(@, category, success)]

\* _update_stats, lines 485-512
update_stats(stats, success, strategy, confidence, category) ==
  [total_assignments       |-> stats.total_assignments + 1,
   successful_assignments  |-> stats.successful_assignments + (IF success THEN 1 ELSE 0),
   failed_assignments      |-> stats.failed_assignments + (IF success THEN 0 ELSE 1),
   assignments_by_strategy |-> CountedUnder(stats.assignments_by_strategy, strategy, success),
   assignments_by_category |-> CountedUnder(stats.assignments_by_category, category, success),
   average_confidence      |->
     IF success
     THEN AverageWith(stats.average_confidence, stats.successful_assignments + 1, confidence)
     ELSE stats.average_confidence]

\* lines 107-119: the strategy called on the roster
StrategyResult(strategy, task_data, teams_data) ==
  CASE strategy = "skill_based" -> assign_skill_based(task_data, teams_data)
    [] strategy = "workload_based" -> assign_workload_based(task_data, teams_data)
    [] strategy = "round_robin" -> assign_round_robin(task_data, teams_data)
    [] strategy = "priority_based" -> assign_priority_based(task_data, teams_data)
    [] strategy = "hybrid" -> assign_hybrid(task_data, teams_data)

\* lines 101-119: no roster, an empty roster, or the strategy's outcome
ResultOnRoster(strategy, task_data, available) ==
  IF available.status # "ok" \/ available.teams_data = <<>>
  THEN AssignRaised("AssignmentError")
  ELSE StrategyResult(strategy, task_data, available.teams_data)

\* a variant that hands the task to the first team of the roster when the
\* strategy found none
CountedWithDefault(stats, strategy, category, result) ==
  [result |-> AssignmentResult(TeamIdAt(1), Zero, strategy, <<>>),
   stats  |-> update_stats(stats, TRUE, strategy, Zero, category)]

\* lines 121-129: the result is returned and counted, and whatever was
\* raised is counted and raised again as AssignmentError
Counted(stats, strategy, category, result) ==
  IF result.status = "ok"
  THEN [result |-> result,
        stats  |-> update_stats(stats, TRUE, strategy, result.confidence, category)]
  ELSE [result |-> AssignRaised("AssignmentError"),
        stats  |-> update_stats(stats, FALSE, strategy, Zero, category)]

\* assign_task, lines 86-129: category "" stands for a missing, None or
\* empty category
assign_task(task_data, strategy, database, stats) ==
  IF task_data.category = ""
  THEN [result |-> AssignRaised("AssignmentError"), stats |-> stats]
  ELSE Counted(stats, strategy, task_data.category,
               ResultOnRoster(strategy, task_data,
                              get_available_teams(database, task_data.category)))

----------------------------------------------------------------------------
(* Calls of assign_task on one engine over a database.                     *)

\* calls of assign_task that are counted
MaxAssignments == 2

\* <<category, <<capacity, load, priority_weight, is_active, skills>>>> of
\* the teams of a database
FreeKind == <<2, 0, One, TRUE, <<DatabaseSkill>>>>

BusyKind == <<2, 1, <<2, 1>>, TRUE, <<>>>>

FullKind == <<1, 1, One, TRUE, <<>>>>

OverfullKind == <<1, 2, One, TRUE, <<>>>>

InactiveKind == <<2, 0, One, FALSE, <<>>>>

FirstTeams ==
  {<<"IT", kind>> : kind \in {FreeKind, BusyKind, FullKind, OverfullKind, InactiveKind}}

SecondTeams ==
  {<<"IT", FullKind>>, <<"HR", FreeKind>>}

\* the open tasks that make the loads of the teams, and a completed one
RECURSIVE TasksLoading(_, _)
TasksLoading(kinds, i) ==
  IF i > Len(kinds) THEN <<TaskRow(1, TeamIdAt(1), "completed")>>
  ELSE [k \in 1..kinds[i][2][2] |->
          TaskRow(10 * i + k, TeamIdAt(i), IF k = 1 THEN "pending" ELSE "in_progress")]
         \o TasksLoading(kinds, i + 1)

DatabaseOf(kinds) ==
  [teams |-> [i \in 1..Len(kinds) |->
                TeamRow(TeamIdAt(i), TeamNameAt(i), kinds[i][1], kinds[i][2][5],
                        kinds[i][2][1], kinds[i][2][2], kinds[i][2][3],
                        kinds[i][2][4])] \o <<>>,
   tasks |-> TasksLoading(kinds, 1),
   assignments |-> <<>>]

EngineDatabases ==
  {DatabaseOf(<<>>)}
    \cup {DatabaseOf(<<first>>) : first \in FirstTeams}
    \cup {DatabaseOf(<<first, second>>) : first \in FirstTeams, second \in SecondTeams}

\* task_data of the callers: a category of the enum, none, or another string
EngineTasks ==
  {TaskData("IT", PriorityStr(PriorityValue["critical"]), DatabaseTitle, DatabaseDescription),
   TaskData("HR", PriorityStr(PriorityValue["low"]), PlainTitle, PlainDescription),
   TaskData("", PriorityStr(PriorityValue["high"]), DatabaseTitle, DatabaseDescription),
   TaskData("Finance", PriorityStr(PriorityValue["high"]), PlainTitle, PlainDescription)}

InitEngine ==
  /\ db \in EngineDatabases
  /\ engine_stats = InitialStats
  /\ agents = 0
  /\ roster = <<>>
  /\ asg_task = 0
  /\ asg_strategy = "none"
  /\ asg_result = NoAssignment
  /\ asg_parts = <<>>
  /\ rb_text = <<>>
  /\ rb_title = <<>>
  /\ rb_result = NoResult
  /\ clock = 0
  /\ cls_call = 0
  /\ cls_result = NoResult
  /\ cls_trace = <<>>
  /\ first_rule = 0
  /\ accuracy_stats = 0
  /\ returned = 0
  /\ sub_results = 0
  /\ combined = 0

\* assign_task has returned or raised: roster keeps the teams_data it read
AssignTaskReturns(task_data, strategy, out) ==
  /\ asg_task' = task_data
  /\ asg_strategy' = strategy
  /\ asg_result' = out.result
  /\ engine_stats' = out.stats
  /\ roster' = get_available_teams(db, task_data.category).teams_data
  /\ UNCHANGED <<asg_parts, db, agents, rb_vars, cls_vars, comb_vars>>

AssignTask ==
  /\ engine_stats.total_assignments < MaxAssignments
  /\ \E task_data \in EngineTasks, strategy \in AssignmentStrategy :
       AssignTaskReturns(task_data, strategy,
                         assign_task(task_data, strategy, db, engine_stats))

NextEngine == AssignTask

SpecEngine == InitEngine /\ [][NextEngine]_vars

\* no team of the roster the last call read is active with availability > 0
NoTeamAvailable == \A i \in 1..Len(roster) : ~Available(roster[i])

\* C12: assign_task raises AssignmentError and returns no result, whatever
\* the strategy, when the task has no category, when the roster of the
\* category is empty, or when no team of the roster is active with
\* availability > 0.
C12_NoTeamIsAssignmentError ==
  (asg_strategy \in AssignmentStrategy
     /\ (asg_task.category = "" \/ roster = <<>> \/ NoTeamAvailable)) =>
    /\ asg_result.status = "AssignmentError"
    /\ asg_result.assigned_team_id = 0

\* a hybrid call found teams of the category, all of them full, and raised
C12_Witness ==
  /\ asg_strategy = "hybrid"
  /\ asg_task.category = "IT"
  /\ Len(roster) = 2
  /\ NoTeamAvailable
  /\ asg_result.status = "AssignmentError"
  /\ engine_stats.failed_assignments > 0

----------------------------------------------------------------------------
(* AssignmentAgent, src/src/agents/assignment_agent.py, and the writes of  *)
(* src/src/database/operations.py it commits.                              *)

\* a variant that assigns only while the team has capacity left
update_task_assignment_if_free(database, task_id, team_id) ==
  IF \E i \in 1..Len(database.teams) :
       /\ database.teams[i].id = team_id
       /\ get_team_workload(database, team_id) >= database.teams[i].capacity
  THEN database
  ELSE [database EXCEPT !.tasks =
          [i \in 1..Len(database.tasks) |->
             IF database.tasks[i].id = task_id
             THEN [database.tasks[i] EXCEPT !.assigned_team_id = team_id]
             ELSE database.tasks[i]] \o <<>>]

\* TaskOperations.update_task_assignment
update_task_assignment(database, task_id, team_id) ==
  [database EXCEPT !.tasks =
     [i \in 1..Len(database.tasks) |->
        IF database.tasks[i].id = task_id
        THEN [database.tasks[i] EXCEPT !.assigned_team_id = team_id]
        ELSE database.tasks[i]] \o <<>>]

\* AssignmentOperations.create_assignment: the active assignments of the
\* task are deactivated and a new active one is added
create_assignment(database, task_id, team_id, strategy_used) ==
  [database EXCEPT !.assignments =
     Append([i \in 1..Len(database.assignments) |->
               IF database.assignments[i].task_id = task_id
               THEN [database.assignments[i] EXCEPT !.is_active = FALSE]
               ELSE database.assignments[i]] \o <<>>,
            [task_id |-> task_id, assigned_team_id |-> team_id,
             strategy_used |-> strategy_used, is_active |-> TRUE])]

\* TeamOperations.update_team_load
update_team_load(database, team_id) ==
  [database EXCEPT !.teams =
     [i \in 1..Len(database.teams) |->
        IF database.teams[i].id = team_id
        THEN [database.teams[i] EXCEPT !.current_load = get_team_workload(database, team_id)]
        ELSE database.teams[i]] \o <<>>]

\* lines 205-215 of the agent's _assign_skill_based: skill_score of one team
AgentSkillScore(team, text) ==
  IF Len(team.skills) > 0
  THEN Rat(Cardinality({k \in 1..Len(team.skills) : Contains(Lower(team.skills[k]), text)}),
           Len(team.skills))
  ELSE Zero

\* lines 217-221: total_score of one team
AgentSkillTotal(team, text) ==
  RAdd(RAdd(RMul(AgentSkillScore(team, text), <<3, 5>>),
            RMul(AvailabilityRatio(team), <<3, 10>>)),
       RMul(team.priority_weight, <<1, 10>>))

AgentSkillScores(teams_data, text) ==
  [i \in 1..Len(teams_data) |->
     IF Available(teams_data[i]) THEN AgentSkillTotal(teams_data[i], text) ELSE Zero] \o <<>>

\* lines 223-239
AgentSkillResult(teams_data, scores, best_team) ==
  IF best_team = 0 THEN AssignRaised("AssignmentError")
  ELSE AssignmentResult(teams_data[best_team].id, RMin(scores[best_team], One),
                        "skill_based",
                        ScoresByName(teams_data, 1..Len(teams_data), scores))

AgentSkillChoice(teams_data, scores) ==
  AgentSkillResult(teams_data, scores, FirstBest(scores, AvailableIndexes(teams_data)))

\* AssignmentAgent._assign_skill_based
agent_assign_skill_based(task_data, teams_data) ==
  AgentSkillChoice(teams_data,
                   AgentSkillScores(teams_data,
                                    Lower(Join2(task_data.title, task_data.description))))

\* AssignmentAgent._assign_round_robin
agent_assign_round_robin(task_data, teams_data) ==
  IF AvailableIndexes(teams_data) = {} THEN AssignRaised("AssignmentError")
  ELSE AssignmentResult(teams_data[FirstByLoad(teams_data, AvailableIndexes(teams_data))].id,
                        <<4, 5>>, "round_robin",
                        ScoresByName(teams_data, AvailableIndexes(teams_data),
                                     [i \in 1..Len(teams_data) |->
                                        Rat(1, teams_data[i].current_load + 1)] \o <<>>))

\* lines 282-288: the factor of the task's priority, compared as a str
AgentPriorityFactor(priority_field) ==
  IF priority_field.kind # "str" THEN One
  ELSE IF priority_field.value = Title(PriorityValue["critical"]) THEN <<3, 2>>
  ELSE IF priority_field.value = Title(PriorityValue["high"]) THEN <<6, 5>>
  ELSE IF priority_field.value = Title(PriorityValue["low"]) THEN <<4, 5>>
  ELSE One

\* AssignmentAgent._assign_workload_based
agent_assign_workload_based(task_data, teams_data) ==
  ScoredResult(teams_data, AvailableIndexes(teams_data),
               [i \in 1..Len(teams_data) |->
                  IF Available(teams_data[i])
                  THEN RMul(AvailabilityRatio(teams_data[i]),
                            RMul(teams_data[i].priority_weight,
                                 AgentPriorityFactor(task_data.priority)))
                  ELSE Zero] \o <<>>,
               <<9, 10>>, "workload_based")

\* what the LLM is taken to answer: 0, the call fails; n, a well-formed
\* answer naming the n-th team of the roster or, past its end, no team of it
LLMChoices == {0, 1, 2}

\* _assign_with_llm and _validate_assignment on its answer
agent_assign_with_llm(task_data, teams_data, llm_choice) ==
  IF llm_choice = 0 THEN agent_assign_workload_based(task_data, teams_data)
  ELSE IF llm_choice > Len(teams_data) THEN AssignRaised("AssignmentError")
  ELSE AssignmentResult(teams_data[llm_choice].id, <<7, 10>>, "llm", <<>>)

\* lines 104-116 of execute
AgentStrategyResult(strategy, task_data, teams_data, llm_choice) ==
  CASE strategy = "skill_based" -> agent_assign_skill_based(task_data, teams_data)
    [] strategy = "round_robin" -> agent_assign_round_robin(task_data, teams_data)
    [] strategy = "workload_based" -> agent_assign_workload_based(task_data, teams_data)
    [] OTHER -> agent_assign_with_llm(task_data, teams_data, llm_choice)

\* lines 93-116 and 149-151: every exception leaves as AssignmentError
AgentDecision(strategy, task_data, available, llm_choice) ==
  IF task_data.category = "" \/ available.status # "ok" \/ available.teams_data = <<>>
  THEN AssignRaised("AssignmentError")
  ELSE IF AgentStrategyResult(strategy, task_data, available.teams_data, llm_choice).status = "ok"
  THEN AgentStrategyResult(strategy, task_data, available.teams_data, llm_choice)
  ELSE AssignRaised("AssignmentError")

----------------------------------------------------------------------------
(* Two calls of AssignmentAgent.execute running concurrently over one      *)
(* database: each "with db_manager.get_session()" block is a transaction.  *)

Callers == {"first", "second"}

\* teams of the category IT
AgentTeams ==
  {<<<<"IT", BusyKind>>, <<"IT", FullKind>>>>,
   <<<<"IT", FreeKind>>, <<"IT", BusyKind>>>>,
   <<<<"IT", FullKind>>, <<"IT", <<1, 0, One, TRUE, <<>>>>>>>>,
   <<<<"IT", BusyKind>>>>,
   <<<<"IT", InactiveKind>>, <<"HR", FreeKind>>>>}

\* the tasks the calls are about, not yet assigned
OpenTasks == <<TaskRow(5, 0, "pending"), TaskRow(6, 0, "pending")>>

AgentDatabases ==
  {[DatabaseOf(kinds) EXCEPT !.tasks = @ \o OpenTasks] : kinds \in AgentTeams}

\* task_data of the callers
AgentTaskData(id, task_data) == [id |-> id] @@ task_data

AgentTasks ==
  {AgentTaskData(5, TaskData("IT", PriorityStr(Title(PriorityValue["critical"])),
                             DatabaseTitle, DatabaseDescription)),
   AgentTaskData(6, TaskData("IT", PriorityStr(Title(PriorityValue["critical"])),
                             DatabaseTitle, DatabaseDescription)),
   AgentTaskData(6, TaskData("HR", PriorityStr(Title(PriorityValue["low"])),
                             PlainTitle, PlainDescription))}

AgentStrategies == {"skill_based", "round_robin", "workload_based", "llm"}

\* a call that has not started
NotStarted ==
  [pc         |-> "start",
   task_data  |-> AgentTaskData(0, TaskData("", PriorityAbsent, <<>>, <<>>)),
   strategy   |-> "none",
   llm_choice |-> 0,
   teams_data |-> <<>>,
   result     |-> NoAssignment]

InitAgents ==
  /\ db \in AgentDatabases
  /\ agents = [caller \in Callers |-> NotStarted]
  /\ engine_stats = 0
  /\ roster = <<>>
  /\ asg_task = 0
  /\ asg_strategy = "none"
  /\ asg_result = NoAssignment
  /\ asg_parts = <<>>
  /\ rb_text = <<>>
  /\ rb_title = <<>>
  /\ rb_result = NoResult
  /\ clock = 0
  /\ cls_call = 0
  /\ cls_result = NoResult
  /\ cls_trace = <<>>
  /\ first_rule = 0
  /\ accuracy_stats = 0
  /\ returned = 0
  /\ sub_results = 0
  /\ combined = 0

\* lines 83-119 of execute: the roster is read in one transaction and the
\* team is chosen from what was read
Read(task_data, strategy, llm_choice, available, result) ==
  [pc         |-> IF result.status = "ok" THEN "decided" ELSE "raised",
   task_data  |-> task_data,
   strategy   |-> strategy,
   llm_choice |-> llm_choice,
   teams_data |-> available.teams_data,
   result     |-> result]

ReadAs(caller, task_data, strategy, llm_choice, available) ==
  agents' = [agents EXCEPT ![caller] =
               Read(task_data, strategy, llm_choice, available,
                    AgentDecision(strategy, task_data, available, llm_choice))]

ReadAndDecide(caller) ==
  /\ agents[caller].pc = "start"
  /\ \E task_data \in AgentTasks, strategy \in AgentStrategies, llm_choice \in LLMChoices :
       /\ strategy # "llm" => llm_choice = 0
       /\ ReadAs(caller, task_data, strategy, llm_choice,
                 get_available_teams(db, task_data.category))
  /\ UNCHANGED <<db, engine_stats, roster, asg_task, asg_strategy, asg_result, asg_parts,
                 rb_vars, cls_vars, comb_vars>>

\* line 122: _store_assignment commits
StoreAssignment(caller) ==
  /\ agents[caller].pc = "decided"
  /\ db' = create_assignment(db, agents[caller].task_data.id,
                             agents[caller].result.assigned_team_id,
                             agents[caller].strategy)
  /\ agents' = [agents EXCEPT ![caller].pc = "stored"]
  /\ UNCHANGED <<engine_stats, roster, asg_task, asg_strategy, asg_result, asg_parts,
                 rb_vars, cls_vars, comb_vars>>

\* line 125: _update_task_assignment commits
UpdateTaskAssignment(caller) ==
  /\ agents[caller].pc = "stored"
  /\ db' = update_task_assignment(db, agents[caller].task_data.id,
                                  agents[caller].result.assigned_team_id)
  /\ agents' = [agents EXCEPT ![caller].pc = "updated"]
  /\ UNCHANGED <<engine_stats, roster, asg_task, asg_strategy, asg_result, asg_parts,
                 rb_vars, cls_vars, comb_vars>>

\* lines 128-129: _update_team_workload commits, and execute returns
UpdateTeamWorkload(caller) ==
  /\ agents[caller].pc = "updated"
  /\ db' = update_team_load(db, agents[caller].result.assigned_team_id)
  /\ agents' = [agents EXCEPT ![caller].pc = "returned"]
  /\ UNCHANGED <<engine_stats, roster, asg_task, asg_strategy, asg_result, asg_parts,
                 rb_vars, cls_vars, comb_vars>>

NextAgents ==
  \E caller \in Callers :
    \/ ReadAndDecide(caller)
    \/ StoreAssignment(caller)
    \/ UpdateTaskAssignment(caller)
    \/ UpdateTeamWorkload(caller)

SpecAgents == InitAgents /\ [][NextAgents]_vars

\* the team row of the database with this id
TeamWithId(team_id) ==
  db.teams[CHOOSE i \in 1..Len(db.teams) : db.teams[i].id = team_id]

\* what the call read about the team it chose
ReadAbout(caller) ==
  agents[caller].teams_data[
    CHOOSE i \in 1..Len(agents[caller].teams_data) :
      agents[caller].teams_data[i].id = agents[caller].result.assigned_team_id]

\* both calls have returned, they were about different tasks, and they read
\* the same roster: neither read after a commit of the other
BothReadBeforeCommit ==
  /\ \A caller \in Callers : agents[caller].pc = "returned"
  /\ agents["first"].task_data.id # agents["second"].task_data.id
  /\ agents["first"].teams_data = agents["second"].teams_data

SameRequest ==
  /\ agents["first"].strategy = agents["second"].strategy
  /\ agents["first"].llm_choice = agents["second"].llm_choice
  /\ agents["first"].task_data.priority = agents["second"].task_data.priority
  /\ agents["first"].task_data.title = agents["second"].task_data.title
  /\ agents["first"].task_data.description = agents["second"].task_data.description

\* C14: nothing is locked and availability is not validated again: two
\* concurrent calls that both read the roster before either commits choose
\* from the same stale roster, both commits take effect, and a team that
\* had availability 1 ends with a load above its capacity.
C14_StaleRosterOverloadsTeam ==
  BothReadBeforeCommit =>
    /\ \A caller \in Callers :
         /\ get_team_workload(db, agents[caller].result.assigned_team_id)
              > ReadAbout(caller).current_load
         /\ \E i \in 1..Len(db.tasks) :
              /\ db.tasks[i].id = agents[caller].task_data.id
              /\ db.tasks[i].assigned_team_id = agents[caller].result.assigned_team_id
    /\ SameRequest =>
         /\ agents["first"].result = agents["second"].result
         /\ get_team_workload(db, agents["first"].result.assigned_team_id)
              = ReadAbout("first").current_load + 2
         /\ ReadAbout("first").availability = 1 =>
              /\ get_team_workload(db, agents["first"].result.assigned_team_id)
                   > TeamWithId(agents["first"].result.assigned_team_id).capacity
              /\ TeamWithId(agents["first"].result.assigned_team_id).current_load
                   > TeamWithId(agents["first"].result.assigned_team_id).capacity

\* both calls read a roster in which the team had availability 1, both chose
\* it by workload, and its load is now above its capacity
C14_Witness ==
  /\ BothReadBeforeCommit
  /\ SameRequest
  /\ agents["first"].strategy = "workload_based"
  /\ ReadAbout("first").availability = 1
  /\ agents["first"].result.assigned_team_id = agents["second"].result.assigned_team_id
  /\ TeamWithId(agents["first"].result.assigned_team_id).current_load
       > TeamWithId(agents["first"].result.assigned_team_id).capacity

----------------------------------------------------------------------------
(* The statistics of the engine over its calls.                            *)

\* the 'total' values of the entries of a statistics dictionary, summed
RECURSIVE SumOfTotals(_, _)
SumOfTotals(counts, keys) ==
  IF keys = {} THEN 0
  ELSE counts[CHOOSE key \in keys : TRUE].total
         + SumOfTotals(counts, keys \ {CHOOSE key \in keys : TRUE})

StatsConsistent(stats) ==
  /\ stats.total_assignments = stats.successful_assignments + stats.failed_assignments
  /\ SumOfTotals(stats.assignments_by_strategy, DOMAIN stats.assignments_by_strategy)
       = stats.total_assignments
  /\ \A k \in DOMAIN stats.assignments_by_strategy :
       stats.assignments_by_strategy[k].successful <= stats.assignments_by_strategy[k].total
  /\ \A k \in DOMAIN stats.assignments_by_category :
       stats.assignments_by_category[k].successful <= stats.assignments_by_category[k].total

\* C27: after any sequence of assign_task calls total_assignments =
\* successful_assignments + failed_assignments, the per-strategy totals sum
\* to total_assignments and successful <= total in every per-strategy and
\* per-category entry; a call that fails inside the engine increments
\* failed_assignments exactly once, and a call rejected for a missing
\* category changes no counter.
C27_StatisticsConsistent ==
  [][/\ StatsConsistent(engine_stats')
     /\ asg_task'.category = "" => engine_stats' = engine_stats
     /\ (asg_task'.category # "" /\ asg_result'.status # "ok") =>
          /\ engine_stats'.failed_assignments = engine_stats.failed_assignments + 1
          /\ engine_stats'.total_assignments = engine_stats.total_assignments + 1
          /\ engine_stats'.successful_assignments = engine_stats.successful_assignments
     /\ asg_result'.status = "ok" =>
          /\ engine_stats'.successful_assignments = engine_stats.successful_assignments + 1
          /\ engine_stats'.total_assignments = engine_stats.total_assignments + 1
          /\ engine_stats'.failed_assignments = engine_stats.failed_assignments]_vars

\* one call succeeded, one failed inside the engine, under different
\* strategies
C27_Witness ==
  /\ engine_stats.total_assignments = 2
  /\ engine_stats.successful_assignments = 1
  /\ engine_stats.failed_assignments = 1
  /\ Cardinality(DOMAIN engine_stats.assignments_by_strategy) = 2
  /\ asg_result.status = "AssignmentError"

----------------------------------------------------------------------------
(* Serialized assignments: the team a call of assign_task chose takes the  *)
(* task, and its load is written, before the next call reads the roster.   *)

\* calls of assign_task in a row
MaxSerial == 3

\* teams with loads within their capacity
SerialDatabases ==
  {DatabaseOf(<<<<"IT", BusyKind>>, <<"IT", BusyKind>>>>),
   DatabaseOf(<<<<"IT", FreeKind>>, <<"IT", FullKind>>>>),
   DatabaseOf(<<<<"IT", InactiveKind>>, <<"IT", BusyKind>>>>),
   DatabaseOf(<<<<"IT", BusyKind>>, <<"HR", FullKind>>>>)}

\* the tasks waiting for a team
WaitingTasks == [k \in 1..MaxSerial |-> TaskRow(k + 1, 0, "pending")] \o <<>>

SerialTasks ==
  {TaskData("IT", PriorityStr(PriorityValue["critical"]), DatabaseTitle, DatabaseDescription),
   TaskData("HR", PriorityStr(PriorityValue["low"]), PlainTitle, PlainDescription)}

\* the id of the first task without a team
FirstWaiting(database) ==
  LET waiting == {i \in 1..Len(database.tasks) : database.tasks[i].assigned_team_id = 0}
  IN  database.tasks[CHOOSE i \in waiting : \A j \in waiting : i <= j].id

\* the task is given to the team and the load of the team is written
Committed(database, task_id, team_id) ==
  update_team_load(update_task_assignment(database, task_id, team_id), team_id)

InitSerial ==
  /\ \E database \in SerialDatabases :
       db = [database EXCEPT !.tasks = database.tasks \o WaitingTasks]
  /\ engine_stats = InitialStats
  /\ agents = 0
  /\ roster = <<>>
  /\ asg_task = 0
  /\ asg_strategy = "none"
  /\ asg_result = NoAssignment
  /\ asg_parts = <<>>
  /\ rb_text = <<>>
  /\ rb_title = <<>>
  /\ rb_result = NoResult
  /\ clock = 0
  /\ cls_call = 0
  /\ cls_result = NoResult
  /\ cls_trace = <<>>
  /\ first_rule = 0
  /\ accuracy_stats = 0
  /\ returned = 0
  /\ sub_results = 0
  /\ combined = 0

\* assign_task has returned or raised, and what it chose is committed
SerializedReturns(task_data, strategy, out) ==
  /\ asg_task' = task_data
  /\ asg_strategy' = strategy
  /\ asg_result' = out.result
  /\ engine_stats' = out.stats
  /\ roster' = get_available_teams(db, task_data.category).teams_data
  /\ db' = IF out.result.status = "ok"
           THEN Committed(db, FirstWaiting(db), out.result.assigned_team_id)
           ELSE db
  /\ UNCHANGED <<asg_parts, agents, rb_vars, cls_vars, comb_vars>>

SerializedAssign ==
  /\ engine_stats.total_assignments < MaxSerial
  /\ \E task_data \in SerialTasks, strategy \in AssignmentStrategy :
       SerializedReturns(task_data, strategy,
                         assign_task(task_data, strategy, db, engine_stats))

NextSerial == SerializedAssign

SpecSerial == InitSerial /\ [][NextSerial]_vars

\* no team carries more than its capacity, by its tasks and by its row
WithinCapacity ==
  \A i \in 1..Len(db.teams) :
    /\ get_team_workload(db, db.teams[i].id) <= db.teams[i].capacity
    /\ db.teams[i].current_load <= db.teams[i].capacity

\* every team the last call read was full
RosterFull == \A i \in 1..Len(roster) : roster[i].current_load >= roster[i].capacity

\* C25: when each assignment is committed before the next one reads the
\* roster, and the loads start within capacity, no team's load ever exceeds
\* its capacity under any strategy, and a call that finds every team full
\* fails with AssignmentError.
C25_SerializedWithinCapacity ==
  /\ WithinCapacity
  /\ (asg_result.status # "none" /\ RosterFull) => asg_result.status = "AssignmentError"

\* an earlier call filled the last free place of a team, and the call after
\* it found every team full and failed
C25_Witness ==
  /\ engine_stats.successful_assignments > 0
  /\ engine_stats.failed_assignments > 0
  /\ asg_result.status = "AssignmentError"
  /\ roster # <<>>
  /\ RosterFull
  /\ \E i \in 1..Len(db.tasks), j \in 1..Len(WaitingTasks) :
       /\ db.tasks[i].id = WaitingTasks[j].id
       /\ db.tasks[i].assigned_team_id \in {roster[k].id : k \in 1..Len(roster)}
  /\ WithinCapacity

====
